---- MODULE Spec2Model ----
(***************************************************************************)
(* Verification model of the ailane-backend ingestion core:                *)
(*   - duplicate detection and version tracking                            *)
(*       (src/backend/scrapers/duplicate_detector.py)                      *)
(*   - the scraper run lifecycle (src/scrapers/base.py)                    *)
(*   - the rate limited HTTP session                                       *)
(*       (src/backend/scrapers/real_gov_uk_scraper.py)                     *)
(* The persistent store is the abstract table repository of the spec: each *)
(* statement is atomic, and a statement that fails raises without effect.  *)
(***************************************************************************)
EXTENDS Integers, Sequences, FiniteSets, TLC

\* ---------------------------------------------------------------- bounds
NumSids == 2
NumHashes == 3
MaxCalls == 3
MaxFails == 1

Sids == 1..NumSids
Hashes == 1..NumHashes
\* The callers of process_with_duplicate_detection: two, for the concurrent case.
Procs == {1, 2}

\* Python's None for an Optional[str] id (create_version_record's default).
NoId == 0

VARIABLES
    updates,    \* table regulatory_updates: sequence of live rows, insertion order
    versions,   \* table decision_versions: sequence of version rows
    call,       \* per caller: the frame of its process_with_duplicate_detection call
    calls,      \* number of calls started so far
    lived,      \* history: the (identifier, hash) pairs that were live at some time
    fails,      \* numbers of store reads and store writes that failed so far
    runs,       \* table scraper_runs: sequence of run records
    stored,     \* table regulatory_updates as BaseScraper writes it: content hashes
    run,        \* the frame of the current BaseScraper.run invocation
    nruns,      \* number of run invocations started so far
    now,        \* time.time()
    sess,       \* the RateLimitedSession object: delay, last_request_time
    get,        \* the frame of the current RateLimitedSession.get call
    starts,     \* start times of the HTTP requests the session issued, in order
    gets,       \* number of get calls started so far
    audit_log,  \* table audit_log: sequence of audit entries
    audit,      \* the frame of the current AuditLogger.log_event call
    recon,      \* the frame of the current reconcile_scrape_batch call
    acei,       \* the frame of the caller of compute_acei: input, score, history
    grading,    \* the frame of the caller of score_to_grade: score, grade, history
    recent,     \* per category: tribunal decisions of the last 7 days in the store
    ordinal,    \* the frame of the current calculate_likelihood_for_category call
    lcall,      \* the frame of the caller of compute_l: indices, result, history
    evicall,    \* the frame of the caller of calculate_evi: count, result, history
    quality,    \* the frame of the caller of check_decision_quality: record, issues
    scrape      \* the frame of the current scrape_recent_decisions call

dedupVars == <<updates, versions, call, calls, lived>>

runVars == <<runs, stored, run, nruns>>

httpVars == <<now, sess, get, starts, gets>>

scraperVars == <<quality, scrape>>

integVars == <<audit_log, audit, recon, quality, scrape>>

scoreVars == <<acei, grading>>

indexVars == <<lcall, evicall>>

ordinalVars == <<recent, ordinal, lcall, evicall>>

vars == <<updates, versions, call, calls, lived, fails, runs, stored, run, nruns,
          now, sess, get, starts, gets, audit_log, audit, recon, acei, grading,
          recent, ordinal, lcall, evicall, quality, scrape>>

\* ------------------------------------------------------- store primitives

\* .select(...).eq('source_identifier', s): the rows of s, in table order. Every
\* decision carries source_type 'employment_tribunal' (as the GOV.UK scraper
\* builds it), so the second filter of check_duplicate keeps every row.
SelectBySid(rows, s) == SelectSeq(rows, LAMBDA r : r.sid = s)

\* .select('*').eq('id', i)
SelectById(rows, i) == SelectSeq(rows, LAMBDA r : r.id = i)

\* .insert(row): the store appends the row and assigns its id.
InsertRow(rows, row) == Append(rows, [row EXCEPT !.id = Len(rows) + 1])

\* .update(fields).eq('id', i)
UpdateRow(rows, i, new) ==
    [k \in 1..Len(rows) |-> IF rows[k].id = i THEN [new EXCEPT !.id = i] ELSE rows[k]]

\* A store statement either succeeds or raises; at most MaxFails raise.
Outcomes == IF fails.read + fails.write < MaxFails THEN {TRUE, FALSE} ELSE {TRUE}

\* The failure count after a read (select) or a write (insert, update) statement.
FailedRead(ok) == IF ok THEN fails ELSE [fails EXCEPT !.read = @ + 1]

FailedWrite(ok) == IF ok THEN fails ELSE [fails EXCEPT !.write = @ + 1]

NoFailure == fails.read = 0 /\ fails.write = 0

\* ------------------------------------------------------ DuplicateDetector

MaxOf(S) == CHOOSE m \in S : \A x \in S : x <= m

\* _get_latest_version: the highest version of s in decision_versions, 0 if none.
LatestVersion(vrows, s) ==
    LET mine == SelectBySid(vrows, s)
    IN  IF Len(mine) > 0 THEN MaxOf({mine[k].version : k \in 1..Len(mine)}) ELSE 0

\* .order('version', desc=False): insertion sort by version, equal versions in
\* table order.
RECURSIVE OrderByVersion(_)
OrderByVersion(rows) ==
    IF Len(rows) <= 1 THEN rows
    ELSE LET front == OrderByVersion(SubSeq(rows, 1, Len(rows) - 1))
             last == rows[Len(rows)]
             before == SelectSeq(front, LAMBDA r : r.version <= last.version)
             after == SelectSeq(front, LAMBDA r : r.version > last.version)
         IN  before \o <<last>> \o after

\* get_decision_history: the version rows of s, oldest version first.
DecisionHistory(vrows, s) == OrderByVersion(SelectBySid(vrows, s))

\* check_duplicate with the hash comparison lost: a stored identifier is always updated.
CheckActionNoSkip(found, h) == IF Len(found) = 0 THEN "insert" ELSE "update"

\* check_duplicate's decision from the rows the query returned.
CheckAction(found, h) ==
    IF Len(found) = 0 THEN "insert"
    ELSE IF found[1].hash = h THEN "skip"
    ELSE "update"

\* The version record create_version_record builds.
VersionRow(s, v, h, prev, why) ==
    [id |-> NoId, sid |-> s, version |-> v, hash |-> h, prev |-> prev, reason |-> why]

\* The live row process_with_duplicate_detection inserts (no version metadata yet).
LiveRow(s, h) == [id |-> NoId, sid |-> s, hash |-> h, version |-> 0, prev |-> NoId]

\* merge_duplicate's update_data: new_data with version and previous_version_id.
MergedRow(s, h, v, prev) == [id |-> NoId, sid |-> s, hash |-> h, version |-> v, prev |-> prev]

IdleFrame ==
    [pc |-> "idle", sid |-> 1, hash |-> 1, action |-> "none", existing_id |-> NoId,
     existing_hash |-> 0, version |-> 0, old_hash |-> 0, old_version_id |-> NoId,
     old_write |-> "none", result |-> "none", read_failed |-> FALSE,
     pre_updates |-> <<>>, pre_versions |-> <<>>]

\* process_with_duplicate_detection(supabase, decision_data) is entered.
Call(p, s, h) ==
    /\ call[p].pc \in {"idle", "done"}
    /\ calls < MaxCalls
    /\ call' = [call EXCEPT ![p] = [IdleFrame EXCEPT !.pc = "check", !.sid = s, !.hash = h,
                                       !.pre_updates = updates, !.pre_versions = versions]]
    /\ calls' = calls + 1
    /\ UNCHANGED <<updates, versions, fails, lived>>
    /\ UNCHANGED <<runVars, httpVars, integVars, scoreVars, ordinalVars>>

\* check_duplicate: the query on regulatory_updates and the branch on its result.
CheckSelect(p) ==
    /\ call[p].pc = "check"
    /\ \E ok \in Outcomes :
        LET c == call[p]
            found == SelectBySid(updates, c.sid)
            act == CheckAction(found, c.hash)
        IN  /\ fails' = FailedRead(ok)
            /\ call' = [call EXCEPT ![p] =
                  IF ~ok \/ act = "insert"
                  THEN [c EXCEPT !.pc = "insert", !.action = "insert", !.version = 1,
                                 !.read_failed = c.read_failed \/ ~ok]
                  ELSE [c EXCEPT !.pc = "latest", !.action = act,
                                 !.existing_id = found[1].id,
                                 !.existing_hash = found[1].hash]]
    /\ UNCHANGED <<updates, versions, calls, lived>>
    /\ UNCHANGED <<runVars, httpVars, integVars, scoreVars, ordinalVars>>

\* _get_latest_version as called from check_duplicate, and the caller's dispatch.
GetLatest(p) ==
    /\ call[p].pc = "latest"
    /\ \E ok \in Outcomes :
        LET c == call[p]
            latest == IF ok THEN LatestVersion(versions, c.sid) ELSE 0
        IN  /\ fails' = FailedRead(ok)
            /\ call' = [call EXCEPT ![p] =
                  IF c.action = "skip"
                  THEN [c EXCEPT !.pc = "done", !.version = latest, !.result = "skipped",
                                 !.read_failed = c.read_failed \/ ~ok]
                  ELSE [c EXCEPT !.pc = "merge_read", !.version = latest + 1,
                                 !.read_failed = c.read_failed \/ ~ok]]
    /\ UNCHANGED <<updates, versions, calls, lived>>
    /\ UNCHANGED <<runVars, httpVars, integVars, scoreVars, ordinalVars>>

\* merge_duplicate: read the existing row.
MergeRead(p) ==
    /\ call[p].pc = "merge_read"
    /\ \E ok \in Outcomes :
        LET c == call[p]
            existing == SelectById(updates, c.existing_id)
        IN  /\ fails' = FailedRead(ok)
            /\ call' = [call EXCEPT ![p] =
                  IF ~ok \/ Len(existing) = 0
                  THEN [c EXCEPT !.pc = "done", !.result = "error",
                                 !.read_failed = c.read_failed \/ ~ok]
                  ELSE [c EXCEPT !.pc = "merge_old", !.old_hash = existing[1].hash]]
    /\ UNCHANGED <<updates, versions, calls, lived>>
    /\ UNCHANGED <<runVars, httpVars, integVars, scoreVars, ordinalVars>>

\* merge_duplicate: create_version_record for the superseded version.
MergeOld(p) ==
    /\ call[p].pc = "merge_old"
    /\ \E ok \in Outcomes :
        LET c == call[p]
            row == VersionRow(c.sid, c.version - 1, c.old_hash, NoId, "superseded")
        IN  /\ fails' = FailedWrite(ok)
            /\ versions' = IF ok THEN InsertRow(versions, row) ELSE versions
            /\ call' = [call EXCEPT ![p] =
                  [c EXCEPT !.pc = "merge_update",
                            !.old_version_id = IF ok THEN Len(versions) + 1 ELSE NoId,
                            !.old_write = IF ok THEN "ok" ELSE "failed"]]
    /\ UNCHANGED <<updates, calls, lived>>
    /\ UNCHANGED <<runVars, httpVars, integVars, scoreVars, ordinalVars>>

\* merge_duplicate: update the live row.
MergeUpdate(p) ==
    /\ call[p].pc = "merge_update"
    /\ \E ok \in Outcomes :
        LET c == call[p]
            row == MergedRow(c.sid, c.hash, c.version, c.old_version_id)
        IN  /\ fails' = FailedWrite(ok)
            /\ updates' = IF ok THEN UpdateRow(updates, c.existing_id, row) ELSE updates
            /\ lived' = IF ok THEN lived \cup {<<c.sid, c.hash>>} ELSE lived
            /\ call' = [call EXCEPT ![p] =
                  IF ok THEN [c EXCEPT !.pc = "merge_new"]
                  ELSE [c EXCEPT !.pc = "done", !.result = "error"]]
    /\ UNCHANGED <<versions, calls>>
    /\ UNCHANGED <<runVars, httpVars, integVars, scoreVars, ordinalVars>>

\* merge_duplicate: create_version_record for the new version, then return True.
MergeNew(p) ==
    /\ call[p].pc = "merge_new"
    /\ \E ok \in Outcomes :
        LET c == call[p]
            row == VersionRow(c.sid, c.version, c.hash, c.old_version_id, "updated")
        IN  /\ fails' = FailedWrite(ok)
            /\ versions' = IF ok THEN InsertRow(versions, row) ELSE versions
            /\ call' = [call EXCEPT ![p] =
                  [c EXCEPT !.pc = "done", !.result = "updated"]]
    /\ UNCHANGED <<updates, calls, lived>>
    /\ UNCHANGED <<runVars, httpVars, integVars, scoreVars, ordinalVars>>

\* The insert made atomic with the check: the row is added only when the store
\* holds no row of the identifier, as under a uniqueness constraint with upsert.
InsertIfAbsent(p) ==
    /\ call[p].pc = "insert"
    /\ \E ok \in Outcomes :
        LET c == call[p]
            absent == Len(SelectBySid(updates, c.sid)) = 0
        IN  /\ fails' = FailedWrite(ok)
            /\ updates' = IF ok /\ absent THEN InsertRow(updates, LiveRow(c.sid, c.hash))
                           ELSE updates
            /\ lived' = IF ok /\ absent THEN lived \cup {<<c.sid, c.hash>>} ELSE lived
            /\ call' = [call EXCEPT ![p] =
                  IF ok THEN [c EXCEPT !.pc = "insert_ver"]
                  ELSE [c EXCEPT !.pc = "done", !.result = "error"]]
    /\ UNCHANGED <<versions, calls>>
    /\ UNCHANGED <<runVars, httpVars, integVars, scoreVars, ordinalVars>>

\* process_with_duplicate_detection, 'insert' branch: insert the live row.
Insert(p) ==
    /\ call[p].pc = "insert"
    /\ \E ok \in Outcomes :
        LET c == call[p]
        IN  /\ fails' = FailedWrite(ok)
            /\ updates' = IF ok THEN InsertRow(updates, LiveRow(c.sid, c.hash)) ELSE updates
            /\ lived' = IF ok THEN lived \cup {<<c.sid, c.hash>>} ELSE lived
            /\ call' = [call EXCEPT ![p] =
                  IF ok THEN [c EXCEPT !.pc = "insert_ver"]
                  ELSE [c EXCEPT !.pc = "done", !.result = "error"]]
    /\ UNCHANGED <<versions, calls>>
    /\ UNCHANGED <<runVars, httpVars, integVars, scoreVars, ordinalVars>>

\* process_with_duplicate_detection, 'insert' branch: the initial version record.
InsertVer(p) ==
    /\ call[p].pc = "insert_ver"
    /\ \E ok \in Outcomes :
        LET c == call[p]
            row == VersionRow(c.sid, 1, c.hash, NoId, "initial")
        IN  /\ fails' = FailedWrite(ok)
            /\ versions' = IF ok THEN InsertRow(versions, row) ELSE versions
            /\ call' = [call EXCEPT ![p] =
                  [c EXCEPT !.pc = "done", !.result = "inserted"]]
    /\ UNCHANGED <<updates, calls, lived>>
    /\ UNCHANGED <<runVars, httpVars, integVars, scoreVars, ordinalVars>>

\* ------------------------------------------------ properties: versioning

Quiescent == \A p \in Procs : call[p].pc \in {"idle", "done"}

VersionsOf(s) == SelectBySid(versions, s)

\* The live row of s that a call found stored when it was entered.
PreLive(c) == SelectBySid(c.pre_updates, c.sid)

\* Follow previous_version_id from version row i until a row with version 1.
RECURSIVE WalksToFirst(_, _)
WalksToFirst(i, fuel) ==
    IF i = NoId \/ i > Len(versions) \/ fuel = 0 THEN FALSE
    ELSE IF versions[i].version = 1 THEN TRUE
    ELSE WalksToFirst(versions[i].prev, fuel - 1)

\* C1: after any sequence of calls in which every store statement succeeded, the
\* version rows of each identifier carry the numbers 1..n each exactly once, the
\* row with version 1 has no previous_version_id, and every row with version
\* k > 1 points to the row with version k-1.
C1_VersionsGapFree ==
    (NoFailure /\ Quiescent) =>
        \A s \in Sids :
            LET vs == VersionsOf(s)
                n == Len(vs)
            IN  /\ \A k \in 1..n : Cardinality({j \in 1..n : vs[j].version = k}) = 1
                /\ \A j \in 1..n : vs[j].version = 1 => vs[j].prev = NoId
                /\ \A j \in 1..n : vs[j].version > 1 =>
                      \E i \in 1..n : /\ vs[i].version = vs[j].version - 1
                                      /\ vs[j].prev = vs[i].id

\* A live row with identifier s and content hash h is stored.
Stored(rows, s, h) == \E k \in 1..Len(rows) : rows[k].sid = s /\ rows[k].hash = h

\* C2: while no store read has failed, a call for (s, h) entered with a live row
\* (s, h) stored decides 'skip' with the current latest version, returns 'skipped',
\* and leaves regulatory_updates and decision_versions as they were.
C2_SkipIsNoOp ==
    \A p \in Procs :
        LET c == call[p]
        IN  (c.pc = "done" /\ fails.read = 0 /\ Stored(c.pre_updates, c.sid, c.hash)) =>
                /\ c.action = "skip"
                /\ c.version = LatestVersion(c.pre_versions, c.sid)
                /\ c.result = "skipped"
                /\ updates = c.pre_updates
                /\ versions = c.pre_versions

\* C2 witness: a second submission of a stored (s, h) has been skipped.
C2_Witness ==
    \E p \in Procs :
        LET c == call[p]
        IN  /\ c.pc = "done" /\ c.result = "skipped" /\ fails.read = 0
            /\ Stored(c.pre_updates, c.sid, c.hash)
            /\ c.version >= 1
            /\ updates = c.pre_updates /\ versions = c.pre_versions

\* C3: with s stored under hash h and latest version n, a call for (s, h') with
\* h' # h decides 'update' with version n+1, and after the merge the history of s
\* holds a row (n+1, h') whose previous_version_id is the id of a row (n, h), from
\* which the chain can be walked back to version 1.
C3_UpdateChain ==
    \A p \in Procs :
        LET c == call[p]
            pre == PreLive(c)
            n == LatestVersion(c.pre_versions, c.sid)
        IN  (NoFailure /\ c.pc = "done" /\ Len(pre) > 0 /\ pre[1].hash # c.hash) =>
                /\ c.action = "update"
                /\ c.version = n + 1
                /\ \E j \in 1..Len(versions) :
                      /\ versions[j].sid = c.sid
                      /\ versions[j].version = n + 1
                      /\ versions[j].hash = c.hash
                      /\ \E i \in 1..Len(versions) :
                            /\ versions[i].id = versions[j].prev
                            /\ versions[i].sid = c.sid
                            /\ versions[i].version = n
                            /\ versions[i].hash = pre[1].hash
                      /\ WalksToFirst(versions[j].id, Len(versions))

\* No previous_version_id, of a live row or of a version row, names a version
\* record that was never written.
NoDanglingPrev ==
    /\ \A k \in 1..Len(updates) :
          updates[k].prev # NoId => \E i \in 1..Len(versions) : versions[i].id = updates[k].prev
    /\ \A k \in 1..Len(versions) :
          versions[k].prev # NoId => \E i \in 1..Len(versions) : versions[i].id = versions[k].prev

\* C4: merge_duplicate updates the live row only after the record of the
\* superseded version was written: when that write fails the live row stays as it
\* was and no record of the new version is written, and no previous_version_id
\* ever refers to a version record that does not exist.
C4_SupersededWriteFirst ==
    /\ NoDanglingPrev
    /\ \A p \in Procs :
          LET c == call[p]
          IN  c.old_write = "failed" =>
                  /\ updates = c.pre_updates
                  /\ versions = c.pre_versions

\* C11: no regulatory_updates row is ever removed, and after any sequence of
\* calls every hash that was at some time the live hash of an identifier s is the
\* content_hash of a row of get_decision_history(s).
C11_HistoryKeepsEveryHash ==
    Quiescent =>
        \A pair \in lived :
            LET hist == DecisionHistory(versions, pair[1])
            IN  /\ Len(SelectBySid(updates, pair[1])) > 0
                /\ \E k \in 1..Len(hist) : hist[k].hash = pair[2]

\* C26: every decision_versions row ever written has version >= 1, also when a
\* live record without version rows is updated.
C26_VersionsStartAtOne ==
    \A k \in 1..Len(versions) : versions[k].version >= 1

\* C27: check_duplicate returns action 'insert' only when no record with the
\* given source_identifier is stored, also when the store read fails, and no
\* identifier ever has two live rows.
C27_InsertOnlyWhenAbsent ==
    /\ (call[1].pc = "insert" /\ call[1].action = "insert") =>
            SelectBySid(updates, call[1].sid) = <<>>
    /\ \A j, k \in 1..Len(updates) : updates[j].sid = updates[k].sid => j = k

\* ------------------------------------------- properties: concurrent callers

\* Number of live rows with identifier s and content hash h.
RowsFor(s, h) == Cardinality({k \in 1..Len(updates) : updates[k].sid = s /\ updates[k].hash = h})

\* C10: when two concurrent calls for the same new (s, h) both decide 'insert'
\* from a successful read (each read no row of s before the other wrote), both
\* return 'inserted' and regulatory_updates holds two rows for the pair.
C10_RaceInsertsTwice ==
    \A p \in Procs, q \in Procs :
        LET c == call[p]
            d == call[q]
        IN  (/\ p # q /\ NoFailure
             /\ c.pc = "done" /\ d.pc = "done"
             /\ c.sid = d.sid /\ c.hash = d.hash
             /\ c.action = "insert" /\ d.action = "insert") =>
                /\ c.result = "inserted" /\ d.result = "inserted"
                /\ RowsFor(c.sid, c.hash) = 2

\* C10 witness: both callers found the table empty for s, both returned 'inserted'.
C10_Witness ==
    /\ NoFailure
    /\ \A p \in Procs :
          /\ call[p].pc = "done" /\ call[p].result = "inserted"
          /\ call[p].sid = 1 /\ call[p].hash = 1
          /\ Len(SelectBySid(call[p].pre_updates, 1)) = 0
    /\ RowsFor(1, 1) = 2

\* -------------------------------------------------- BaseScraper.run

MaxRuns == 2
MaxBatch == 2
NumFeedHashes == 2

FeedHashes == 1..NumFeedHashes

\* A raw upstream item: the content hash its normalised row will carry, and
\* whether _normalise raises on it.
RawItems == [hash : FeedHashes, bad : BOOLEAN]

RECURSIVE SeqsUpTo(_, _)
SeqsUpTo(S, n) ==
    IF n = 0 THEN {<<>>}
    ELSE LET shorter == SeqsUpTo(S, n - 1)
         IN  shorter \cup {Append(q, x) : q \in shorter, x \in S}

Batches == SeqsUpTo(RawItems, MaxBatch)

\* [self._normalise(item) for item in raw_items]: raises when one item does.
NormaliseRaises(raw) == \E k \in 1..Len(raw) : raw[k].bad

Normalised(raw) == [k \in 1..Len(raw) |-> raw[k].hash]

\* existing_hashes: the content hashes of the batch that the store already holds.
ExistingHashes(rows, table) ==
    {rows[k] : k \in 1..Len(rows)} \cap {table[k] : k \in 1..Len(table)}

\* new_rows = [r for r in rows if r["content_hash"] not in existing_hashes]
NewRows(rows, existing) == SelectSeq(rows, LAMBDA h : h \notin existing)

\* The fields _finish_run writes.
FinishFields(inserted, error) ==
    [status |-> IF error THEN "error" ELSE "success", items_inserted |-> inserted]

\* The run record _start_run inserts; items_inserted is not set yet (-1).
OpenRun == [status |-> "running", items_inserted |-> -1]

IdleRun ==
    [pc |-> "idle", run_id |-> NoId, raw |-> <<>>, rows |-> <<>>, new_rows |-> <<>>,
     exc |-> "none", raised |-> "none", writes |-> 0, pre_len |-> 0]

\* run() is entered: _start_run inserts the run record, or raises before the try.
StartRun ==
    /\ run.pc \in {"idle", "done"}
    /\ nruns < MaxRuns
    /\ nruns' = nruns + 1
    /\ \E ok \in Outcomes :
        /\ fails' = FailedWrite(ok)
        /\ runs' = IF ok THEN Append(runs, OpenRun) ELSE runs
        /\ run' = IF ok
                  THEN [IdleRun EXCEPT !.pc = "fetch", !.run_id = Len(runs) + 1,
                                       !.pre_len = Len(stored)]
                  ELSE [IdleRun EXCEPT !.pc = "done", !.raised = "start"]
    /\ UNCHANGED stored
    /\ UNCHANGED <<dedupVars, httpVars, integVars, scoreVars, ordinalVars>>

\* raw_items = self._fetch_items(limit=limit): a batch, or a transient failure.
Fetch ==
    /\ run.pc = "fetch"
    /\ \/ \E batch \in Batches : run' = [run EXCEPT !.pc = "normalise", !.raw = batch]
       \/ run' = [run EXCEPT !.pc = "handler", !.exc = "fetch"]
    /\ UNCHANGED <<runs, stored, nruns, fails>>
    /\ UNCHANGED <<dedupVars, httpVars, integVars, scoreVars, ordinalVars>>

\* normalised = [self._normalise(item) for item in raw_items]
Normalise ==
    /\ run.pc = "normalise"
    /\ run' = IF NormaliseRaises(run.raw)
              THEN [run EXCEPT !.pc = "handler", !.exc = "normalise"]
              ELSE [run EXCEPT !.pc = "dedup", !.rows = Normalised(run.raw)]
    /\ UNCHANGED <<runs, stored, nruns, fails>>
    /\ UNCHANGED <<dedupVars, httpVars, integVars, scoreVars, ordinalVars>>

\* _deduplicate_and_insert: the early return and the query for existing hashes.
DedupSelect ==
    /\ run.pc = "dedup"
    /\ IF Len(run.rows) = 0
       THEN /\ run' = [run EXCEPT !.pc = "finish", !.new_rows = <<>>]
            /\ UNCHANGED fails
       ELSE \E ok \in Outcomes :
            /\ fails' = FailedRead(ok)
            /\ run' = IF ~ok THEN [run EXCEPT !.pc = "handler", !.exc = "dedup"]
                      ELSE LET new == NewRows(run.rows, ExistingHashes(run.rows, stored))
                           IN  [run EXCEPT !.pc = IF Len(new) > 0 THEN "insert" ELSE "finish",
                                           !.new_rows = new]
    /\ UNCHANGED <<runs, stored, nruns>>
    /\ UNCHANGED <<dedupVars, httpVars, integVars, scoreVars, ordinalVars>>

\* _deduplicate_and_insert: the single insert statement for all new rows.
DedupInsert ==
    /\ run.pc = "insert"
    /\ \E ok \in Outcomes :
        /\ fails' = FailedWrite(ok)
        /\ stored' = IF ok THEN stored \o run.new_rows ELSE stored
        /\ run' = IF ok THEN [run EXCEPT !.pc = "finish"]
                  ELSE [run EXCEPT !.pc = "handler", !.exc = "dedup"]
    /\ UNCHANGED <<runs, nruns>>
    /\ UNCHANGED <<dedupVars, httpVars, integVars, scoreVars, ordinalVars>>

\* self._finish_run(run_id, inserted=len(new_rows)), inside the try block.
FinishSuccess ==
    /\ run.pc = "finish"
    /\ \E ok \in Outcomes :
        /\ fails' = FailedWrite(ok)
        /\ runs' = IF ok
                   THEN [runs EXCEPT ![run.run_id] = FinishFields(Len(run.new_rows), FALSE)]
                   ELSE runs
        /\ run' = IF ok THEN [run EXCEPT !.pc = "done", !.writes = run.writes + 1]
                  ELSE [run EXCEPT !.pc = "handler", !.exc = "finish"]
    /\ UNCHANGED <<stored, nruns>>
    /\ UNCHANGED <<dedupVars, httpVars, integVars, scoreVars, ordinalVars>>

\* except Exception: self._finish_run(run_id, inserted=0, error=True); raise
FinishError ==
    /\ run.pc = "handler"
    /\ \E ok \in Outcomes :
        /\ fails' = FailedWrite(ok)
        /\ runs' = IF ok THEN [runs EXCEPT ![run.run_id] = FinishFields(0, TRUE)] ELSE runs
        /\ run' = IF ok
                  THEN [run EXCEPT !.pc = "done", !.writes = run.writes + 1,
                                   !.raised = run.exc]
                  ELSE [run EXCEPT !.pc = "done", !.raised = "handler"]
    /\ UNCHANGED <<stored, nruns>>
    /\ UNCHANGED <<dedupVars, httpVars, integVars, scoreVars, ordinalVars>>

\* -------------------------------------------------- properties: run record

Terminal(status) == status \in {"success", "error"}

\* Rows of regulatory_updates that the current invocation added.
AddedByRun == Len(stored) - run.pre_len

\* C5: a run whose record was opened is finalized exactly once: exactly one write
\* sets its status to 'success' or 'error', also when a store statement fails
\* during finalization.
C5_FinalizedOnce ==
    (run.pc = "done" /\ run.run_id # NoId) =>
        /\ run.writes = 1
        /\ Terminal(runs[run.run_id].status)

\* C6: when _fetch_items, _normalise or _deduplicate_and_insert raises, the run
\* record ends 'error' with items_inserted 0 and run raises that same exception.
C6_StepFailureRecorded ==
    (run.pc = "done" /\ run.exc \in {"fetch", "normalise", "dedup"}) =>
        /\ runs[run.run_id].status = "error"
        /\ runs[run.run_id].items_inserted = 0
        /\ run.raised = run.exc

\* C7: whenever the run record is terminal, items_inserted is the number of rows
\* the invocation added to regulatory_updates.
C7_CountMatchesRows ==
    (run.run_id # NoId /\ Terminal(runs[run.run_id].status)) =>
        runs[run.run_id].items_inserted = AddedByRun

\* C12: a failure while normalising one item of a fetched batch does not prevent
\* the remaining items from being stored: when run() has ended and no store
\* statement of _deduplicate_and_insert failed, every item of the batch on which
\* _normalise does not raise is in regulatory_updates.
C12_BadItemIsolated ==
    (run.pc = "done" /\ run.run_id # NoId /\ run.exc \notin {"fetch", "dedup"}) =>
        \A k \in 1..Len(run.raw) :
            ~run.raw[k].bad => \E j \in 1..Len(stored) : stored[j] = run.raw[k].hash

\* C25: after any sequence of run invocations executed one after another, no two
\* rows of regulatory_updates have the same content_hash, also when one fetched
\* batch holds the same content_hash more than once.
C25_NoEqualHashes ==
    \A j, k \in 1..Len(stored) : stored[j] = stored[k] => j = k

\* -------------------------------------------------- RateLimitedSession

MAX_RETRIES == 3
RETRY_BACKOFF == 5
RATE_LIMIT_DELAY == 2

MaxDelay == 6
MaxGets == 2
MaxIdle == 1
MaxDur == 1

Delays == 0..MaxDelay

\* time.time() at construction: far later than any delay after the epoch (time 0).
StartClock == MaxDelay + 1

\* __init__: self.delay = delay; self.last_request_time = 0
NewSession(d) == [delay |-> d, last_request_time |-> 0]

\* The rate limiting sleep at the head of get: delay - elapsed when elapsed < delay.
RateLimitSleep(t, s) ==
    LET elapsed == t - s.last_request_time
    IN  IF elapsed < s.delay THEN s.delay - elapsed ELSE 0

\* The backoff with the attempt number taken from 0: no wait after the first failure.
BackoffWaitFromZero(attempt) == RETRY_BACKOFF * attempt

\* time.sleep(RETRY_BACKOFF * (attempt + 1)), attempt counted from 0.
BackoffWait(attempt) == RETRY_BACKOFF * (attempt + 1)

\* if attempt < MAX_RETRIES - 1: sleep and retry; else: raise
RetriesLeft(attempt) == attempt < MAX_RETRIES - 1

IdleGet == [pc |-> "idle", attempt |-> 0, outcomes |-> <<>>, waits |-> <<>>]

\* get() is entered some time after the previous call and sleeps for the rate limit.
GetEnter ==
    /\ get.pc \in {"idle", "returned", "raised"}
    /\ gets < MaxGets
    /\ gets' = gets + 1
    /\ \E idle \in 0..MaxIdle :
        LET t == now + idle
        IN  now' = t + RateLimitSleep(t, sess)
    /\ get' = [IdleGet EXCEPT !.pc = "try"]
    /\ UNCHANGED <<sess, starts>>
    /\ UNCHANGED <<dedupVars, runVars, integVars, scoreVars, ordinalVars, fails>>

\* One attempt: last_request_time is set, the request is sent and succeeds or
\* raises a RequestException after some duration.
Request ==
    /\ get.pc = "try"
    /\ sess' = [sess EXCEPT !.last_request_time = now]
    /\ starts' = Append(starts, now)
    /\ \E dur \in 0..MaxDur, ok \in BOOLEAN :
        /\ now' = now + dur
        /\ get' = IF ok
                  THEN [get EXCEPT !.pc = "returned", !.outcomes = Append(@, "ok")]
                  ELSE [get EXCEPT !.pc = "failed", !.outcomes = Append(@, "fail")]
    /\ UNCHANGED gets
    /\ UNCHANGED <<dedupVars, runVars, integVars, scoreVars, ordinalVars, fails>>

\* The except branch: back off and go round the loop, or re-raise.
Backoff ==
    /\ get.pc = "failed"
    /\ IF RetriesLeft(get.attempt)
       THEN /\ now' = now + BackoffWait(get.attempt)
            /\ get' = [get EXCEPT !.pc = "try", !.attempt = @ + 1,
                                  !.waits = Append(@, BackoffWait(get.attempt))]
       ELSE /\ get' = [get EXCEPT !.pc = "raised"]
            /\ UNCHANGED now
    /\ UNCHANGED <<sess, starts, gets>>
    /\ UNCHANGED <<dedupVars, runVars, integVars, scoreVars, ordinalVars, fails>>

\* ------------------------------------------------ properties: HTTP session

AllFail(outs) == \A k \in 1..Len(outs) : outs[k] = "fail"

\* C8: get makes at most MAX_RETRIES attempts; after failed attempt k < MAX_RETRIES
\* it waits RETRY_BACKOFF * k before attempt k+1; it returns at the first success
\* and attempts nothing after it; when all attempts fail it raises without a
\* further wait.
C8_BoundedRetry ==
    LET n == Len(get.outcomes)
    IN  /\ n <= MAX_RETRIES
        /\ \A k \in 1..(n - 1) : get.outcomes[k] = "fail"
        /\ \A k \in 1..Len(get.waits) : k < MAX_RETRIES /\ get.waits[k] = RETRY_BACKOFF * k
        /\ get.pc = "try" => Len(get.waits) = n
        /\ get.pc = "failed" => Len(get.waits) = n - 1 /\ AllFail(get.outcomes)
        /\ get.pc = "returned" => get.outcomes[n] = "ok" /\ Len(get.waits) = n - 1
        /\ get.pc = "raised" =>
              n = MAX_RETRIES /\ AllFail(get.outcomes) /\ Len(get.waits) = MAX_RETRIES - 1

\* C8 witness: a call has raised after its attempts were used up.
C8_Witness == get.pc = "raised" /\ Len(get.outcomes) = MAX_RETRIES

\* C9: any two consecutive requests of one session start at least delay apart,
\* across get calls and across the retry attempts inside one call.
C9_MinimumSpacing ==
    \A k \in 2..Len(starts) : starts[k] - starts[k - 1] >= sess.delay

\* ------------------------------------------------ audit and reconciliation

MaxStored == 2
MaxAudit == 2
MaxIds == 2

\* The entry log_event builds; the store assigns its id.
AuditEntry(event_type, table_name, record_id) ==
    [id |-> NoId, event_type |-> event_type, table_name |-> table_name,
     record_id |-> record_id]

IdleAudit ==
    [pc |-> "idle", result |-> NoId, error_logged |-> FALSE, raised |-> FALSE,
     inserted |-> FALSE, pre_log |-> <<>>, pre_updates |-> <<>>, pre_versions |-> <<>>]

IdleRecon ==
    [pc |-> "idle", ids |-> <<>>, read_ok |-> TRUE,
     report |-> [status |-> "none", expected |-> 0, found |-> 0, missing |-> <<>>]]

\* The data-integrity layer has one caller: an operation starts when the
\* previous one has returned.
IntegrityIdle == audit.pc = "idle" /\ recon.pc = "idle"

\* store_decision_in_supabase: one insert into regulatory_updates; a failure is
\* logged and False is returned.
StoreDecision(s, h) ==
    /\ IntegrityIdle
    /\ Len(updates) < MaxStored
    /\ \E ok \in Outcomes :
        /\ fails' = FailedWrite(ok)
        /\ updates' = IF ok THEN InsertRow(updates, LiveRow(s, h)) ELSE updates
    /\ UNCHANGED <<versions, call, calls, lived, integVars>>
    /\ UNCHANGED <<runVars, httpVars, scoreVars, ordinalVars>>

\* log_event without its try/except: a failed insert propagates to the caller.
LogEventUnguarded(record_id) ==
    /\ IntegrityIdle
    /\ Len(audit_log) < MaxAudit
    /\ \E ok \in Outcomes :
        /\ fails' = FailedWrite(ok)
        /\ audit_log' = IF ok
                        THEN InsertRow(audit_log,
                                       AuditEntry("insert", "regulatory_updates", record_id))
                        ELSE audit_log
        /\ audit' = [IdleAudit EXCEPT !.pc = "done",
                                      !.result = IF ok THEN Len(audit_log) + 1 ELSE NoId,
                                      !.raised = ~ok,
                                      !.inserted = ok,
                                      !.pre_log = audit_log,
                                      !.pre_updates = updates,
                                      !.pre_versions = versions]
    /\ UNCHANGED <<dedupVars, recon>>
    /\ UNCHANGED <<runVars, httpVars, scoreVars, ordinalVars, scraperVars>>

\* AuditLogger.log_event: the insert into audit_log; the id of the new entry is
\* returned, and a failure is caught, logged with logger.error and answered None.
LogEvent(record_id) ==
    /\ IntegrityIdle
    /\ Len(audit_log) < MaxAudit
    /\ \E ok \in Outcomes :
        /\ fails' = FailedWrite(ok)
        /\ audit_log' = IF ok
                        THEN InsertRow(audit_log,
                                       AuditEntry("insert", "regulatory_updates", record_id))
                        ELSE audit_log
        /\ audit' = [IdleAudit EXCEPT !.pc = "done",
                                      !.result = IF ok THEN Len(audit_log) + 1 ELSE NoId,
                                      !.error_logged = ~ok,
                                      !.inserted = ok,
                                      !.pre_log = audit_log,
                                      !.pre_updates = updates,
                                      !.pre_versions = versions]
    /\ UNCHANGED <<dedupVars, recon>>
    /\ UNCHANGED <<runVars, httpVars, scoreVars, ordinalVars, scraperVars>>

\* log_event has returned to its caller.
LogEventReturn ==
    /\ audit.pc = "done"
    /\ audit' = IdleAudit
    /\ UNCHANGED <<dedupVars, audit_log, recon, fails>>
    /\ UNCHANGED <<runVars, httpVars, scoreVars, ordinalVars, scraperVars>>

\* found_ids: source_identifier of every regulatory_updates row whose identifier
\* is in scraped_ids (.in_('source_identifier', scraped_ids)).
FoundIds(rows, scraped_ids) ==
    LET wanted == {scraped_ids[k] : k \in 1..Len(scraped_ids)}
        hits == SelectSeq(rows, LAMBDA r : r.sid \in wanted)
    IN  [k \in 1..Len(hits) |-> hits[k].sid]

\* missing_ids = [sid for sid in scraped_ids if sid not in found_ids]
MissingIds(scraped_ids, found_ids) ==
    SelectSeq(scraped_ids, LAMBDA s : \A k \in 1..Len(found_ids) : found_ids[k] # s)

\* The report of reconcile_scrape_batch when the select succeeded.
ReconReport(rows, scraped_ids) ==
    LET found_ids == FoundIds(rows, scraped_ids)
        missing_ids == MissingIds(scraped_ids, found_ids)
    IN  [status |-> IF Len(missing_ids) = 0 THEN "complete" ELSE "incomplete",
         expected |-> Len(scraped_ids), found |-> Len(found_ids),
         missing |-> missing_ids]

\* The report of the except branch of reconcile_scrape_batch.
ReconError(scraped_ids) ==
    [status |-> "error", expected |-> Len(scraped_ids), found |-> 0,
     missing |-> scraped_ids]

\* ReconciliationEngine.reconcile_scrape_batch(scraped_ids)
Reconcile(scraped_ids) ==
    /\ IntegrityIdle
    /\ \E ok \in Outcomes :
        /\ fails' = FailedRead(ok)
        /\ recon' = [pc |-> "done", ids |-> scraped_ids, read_ok |-> ok,
                     report |-> IF ok THEN ReconReport(updates, scraped_ids)
                                ELSE ReconError(scraped_ids)]
    /\ UNCHANGED <<dedupVars, audit_log, audit>>
    /\ UNCHANGED <<runVars, httpVars, scoreVars, ordinalVars, scraperVars>>

\* reconcile_scrape_batch has returned to its caller.
ReconcileReturn ==
    /\ recon.pc = "done"
    /\ recon' = IdleRecon
    /\ UNCHANGED <<dedupVars, audit_log, audit, fails>>
    /\ UNCHANGED <<runVars, httpVars, scoreVars, ordinalVars, scraperVars>>

\* ---------------------------------- properties: audit and reconciliation

StoredSids == {updates[k].sid : k \in 1..Len(updates)}

SeqRange(q) == {q[k] : k \in 1..Len(q)}

\* C14: for every list of expected identifiers and every store state the report
\* has missing equal to the expected identifiers that are not stored, and status
\* 'complete' if and only if missing is empty and 'incomplete' otherwise.
C14_MissingIsDifference ==
    recon.pc = "done" =>
        /\ SeqRange(recon.report.missing) = SeqRange(recon.ids) \ StoredSids
        /\ recon.report.status = "complete" <=> Len(recon.report.missing) = 0
        /\ recon.report.status \in {"complete", "incomplete"}

\* ------------------------------------------------------ DataQualityChecker

\* Python values. A dict entry is absent or holds a value; a value is None, a
\* str, an int or a dict. A str carries its length n and what it says (s).
Absent == [type |-> "absent"]

PyNone == [type |-> "NoneType"]

Str(s, n) == [type |-> "str", s |-> s, n |-> n]

EmptyStr == Str("", 0)

PyInt(v) == [type |-> "int", v |-> v]

\* dict.get(key, default)
Get(d, key, default) == IF d[key].type = "absent" THEN default ELSE d[key]

\* bool(value): None and the empty str are false.
Truthy(v) ==
    /\ v.type \notin {"absent", "NoneType"}
    /\ v.type = "str" => v.n > 0

\* A text of n characters ch.
Text(ch, n) == IF n = 0 THEN EmptyStr ELSE Str(ch, n)

\* content.encode('utf-8') of a text: a run of n bytes, no byte for ''.
Utf8(text) ==
    [type |-> "bytes",
     runs |-> IF text.n = 0 THEN <<>> ELSE <<[byte |-> text.s, n |-> text.n]>>]

\* hashlib.sha256(content).hexdigest(): a str of 64 hex digits that tells two
\* contents apart whenever they differ.
Sha256(content) == [type |-> "str", s |-> "sha256", n |-> 64, of |-> content.runs]

\* DataIntegrityValidator.compute_content_hash
compute_content_hash(content) ==
    IF content.type = "str" THEN Sha256(Utf8(content)) ELSE Sha256(content)

\* A url: its scheme and what follows it.
Url(scheme) == Str(scheme, 8)

\* url.startswith(('http://', 'https://'))
StartsWithHttp(url) == url.s \in {"http", "https"}

\* The day check_decision_quality runs on (datetime.now()); dates count in days
\* from it.
Today == 0

\* A date string: whether datetime.fromisoformat accepts it, its timezone suffix
\* ("" for none) and its day.
DateStr(iso, tz, day) ==
    [type |-> "str", s |-> "date", n |-> 19, iso |-> iso, tz |-> tz, day |-> day]

\* A metadata dict: its content_hash entry.
Dict(content_hash) == [type |-> "dict", content_hash |-> content_hash]

\* The text length below which check 2 reports the text as suspicious.
SHORT_TEXT == 100

DataQualityIssue(record_id, field_name, issue_type, severity) ==
    [record_id |-> record_id, field_name |-> field_name, issue_type |-> issue_type,
     severity |-> severity]

required_fields == <<"source_identifier", "title", "full_text", "url">>

\* Check 1: an issue for each required field that is absent, None or empty.
RECURSIVE CheckRequired(_, _, _)
CheckRequired(decision, record_id, k) ==
    IF k > Len(required_fields) THEN <<>>
    ELSE (IF ~Truthy(decision[required_fields[k]])
          THEN <<DataQualityIssue(record_id, required_fields[k], "missing", "critical")>>
          ELSE <<>>)
         \o CheckRequired(decision, record_id, k + 1)

\* Check 2: len(full_text) < 100; len(None) raises TypeError.
CheckLength(full_text, record_id) ==
    IF full_text.type = "NoneType" THEN [raised |-> "TypeError", issues |-> <<>>]
    ELSE [raised |-> "none",
          issues |-> IF full_text.n < SHORT_TEXT
                     THEN <<DataQualityIssue(record_id, "full_text", "suspicious",
                                             "warning")>>
                     ELSE <<>>]

\* Check 3: a non-empty url that starts with neither http:// nor https://.
CheckUrl(url, record_id) ==
    IF Truthy(url) /\ ~StartsWithHttp(url)
    THEN <<DataQualityIssue(record_id, "url", "invalid", "warning")>>
    ELSE <<>>

\* Check 4: fromisoformat raises ValueError on a malformed string, which is
\* caught; a string with a timezone suffix gives an aware datetime, and
\* comparing it with the naive datetime.now() raises TypeError.
CheckDate(pub_date, record_id) ==
    IF ~Truthy(pub_date) THEN [raised |-> "none", issues |-> <<>>]
    ELSE IF ~pub_date.iso
    THEN [raised |-> "none",
          issues |-> <<DataQualityIssue(record_id, "published_date", "malformed",
                                        "warning")>>]
    ELSE IF pub_date.tz # "" THEN [raised |-> "TypeError", issues |-> <<>>]
    ELSE [raised |-> "none",
          issues |-> IF pub_date.day > Today
                     THEN <<DataQualityIssue(record_id, "published_date", "invalid",
                                             "warning")>>
                     ELSE <<>>]

\* Check 5: 'content_hash' in metadata raises TypeError for metadata None; the
\* hash is compared only when full_text is not empty.
CheckHash(metadata, full_text, record_id) ==
    IF metadata.type = "NoneType" THEN [raised |-> "TypeError", issues |-> <<>>]
    ELSE [raised |-> "none",
          issues |->
            IF /\ metadata.content_hash.type # "absent"
               /\ Truthy(full_text)
               /\ compute_content_hash(full_text) # metadata.content_hash
            THEN <<DataQualityIssue(record_id, "content_hash", "invalid", "critical")>>
            ELSE <<>>]

\* check_decision_quality: the checks in order; the first exception leaves the
\* function and no list is returned.
check_decision_quality(decision) ==
    LET record_id == Get(decision, "id", Str("unknown", 7))
        full_text == Get(decision, "full_text", EmptyStr)
        url == Get(decision, "url", EmptyStr)
        pub_date == decision.published_date
        metadata == Get(decision, "metadata", Dict(Absent))
        c1 == CheckRequired(decision, record_id, 1)
        c2 == CheckLength(full_text, record_id)
        c3 == CheckUrl(url, record_id)
        c4 == CheckDate(pub_date, record_id)
        c5 == CheckHash(metadata, full_text, record_id)
    IN  IF c2.raised # "none" THEN c2
        ELSE IF c4.raised # "none" THEN c4
        ELSE IF c5.raised # "none" THEN c5
        ELSE [raised |-> "none",
              issues |-> c1 \o c2.issues \o c3 \o c4.issues \o c5.issues]

\* The records check_decision_quality is given: every field absent, None, empty
\* or set; texts on both sides of SHORT_TEXT; dates well-formed or not, with and
\* without a timezone suffix, past and future; the recorded hash that of the
\* record's text or of another text.
CheckedTexts == {Text("a", n) : n \in {0, SHORT_TEXT - 1, SHORT_TEXT}}

RecordedHashes == {compute_content_hash(text) : text \in CheckedTexts}

CheckedDates ==
    {DateStr(TRUE, "", Today - 1), DateStr(TRUE, "", Today + 1),
     DateStr(TRUE, "Z", Today - 1), DateStr(TRUE, "+00:00", Today - 1),
     DateStr(FALSE, "", Today - 1)}

CheckedDecisions ==
    [id : {Absent, PyInt(1)},
     source_identifier : {Absent, PyNone, EmptyStr, Str("ET-1", 4)},
     title : {EmptyStr, Str("title", 5)},
     full_text : {Absent, PyNone} \cup CheckedTexts,
     url : {Absent, PyNone, EmptyStr, Url("ftp"), Url("https")},
     published_date : {Absent, PyNone, EmptyStr} \cup CheckedDates,
     metadata : {Absent, PyNone, Dict(Absent), Dict(PyNone)}
                \cup {Dict(h) : h \in RecordedHashes}]

\* The caller holds a record (given is the record as the caller passed it);
\* issues is the list the last call returned, raised the exception that left it.
IdleQuality(decision) ==
    [pc |-> "ready", decision |-> decision, given |-> decision, issues |-> <<>>,
     raised |-> "none"]

\* DataQualityChecker.check_decision_quality(decision)
CheckDecisionQuality ==
    /\ quality.pc = "ready"
    /\ LET r == check_decision_quality(quality.decision)
       IN  quality' = [quality EXCEPT !.pc = "done", !.issues = r.issues,
                                      !.raised = r.raised]
    /\ UNCHANGED <<audit_log, audit, recon, scrape, fails>>
    /\ UNCHANGED <<dedupVars, runVars, httpVars, scoreVars, ordinalVars>>

\* ------------------------------------------------------ GOV.UK scraper

MaxLinks == 2
MaxScrapes == 2

\* A decision page of GOV.UK: its case number, whether it is an HTML page or a
\* PDF, the text of the decision and, for an HTML page, the timezone suffix of
\* its <time datetime> attribute ("none": no such tag).
DecisionPages ==
    {page \in [sid : Sids, kind : {"html", "pdf"},
               text : {EmptyStr, Text("a", SHORT_TEXT)}, time : {"none", "", "Z"}] :
        page.kind = "pdf" => page.time = "none"}

\* The indexes of GOV.UK: up to MaxLinks links, each to another page.
Indexes ==
    {index \in SeqsUpTo(DecisionPages, MaxLinks) :
        \A j, k \in 1..Len(index) : index[j] = index[k] => j = k}

\* The bytes that are markup: the tags of an HTML page, its <time> tag without
\* and with the suffix Z, the container of a PDF.
Markup == {"<html>", "<time>", "<time Z>", "%PDF"}

\* response.content of a page: the bytes of its markup followed by the bytes of
\* its text.
ResponseContent(page) ==
    [type |-> "bytes",
     runs |-> <<[byte |-> IF page.kind = "html" THEN "<html>" ELSE "%PDF", n |-> 1]>>
              \o (CASE page.time = "" -> <<[byte |-> "<time>", n |-> 1]>>
                    [] page.time = "Z" -> <<[byte |-> "<time Z>", n |-> 1]>>
                    [] OTHER -> <<>>)
              \o Utf8(page.text).runs]

\* content_area.get_text(...) and page.extract_text(): the bytes that are not
\* markup, as a str.
ExtractText(content) ==
    LET plain == SelectSeq(content.runs, LAMBDA chunk : chunk.byte \notin Markup)
    IN  IF plain = <<>> THEN EmptyStr ELSE Str(plain[1].byte, plain[1].n)

\* _extract_case_number: the case number in the url, as a str.
CaseNumber(s) == [type |-> "str", s |-> "ET-", n |-> 14, no |-> s]

\* _extract_published_date: datetime.fromisoformat(...replace('Z', '+00:00')) of
\* the <time> tag, an aware datetime for a suffix; None without a tag. A PDF's
\* date is not modelled (None).
PublishedDate(page) ==
    IF page.time = "none" THEN PyNone
    ELSE [type |-> "datetime", aware |-> page.time # "", day |-> Today - 1]

\* datetime.isoformat(): an aware datetime is written with its offset.
IsoFormat(dt) == DateStr(TRUE, IF dt.aware THEN "+00:00" ELSE "", dt.day)

\* The TribunalDecision that _parse_html_decision and _parse_pdf_decision build
\* from the response: content_hash is the hash of the raw response bytes.
TribunalDecision(page) ==
    [type |-> "TribunalDecision",
     source_identifier |-> page.sid,
     title |-> Str("title", 5),
     url |-> Url("https"),
     published_date |-> PublishedDate(page),
     decision_text |-> ExtractText(ResponseContent(page)),
     content_hash |-> Sha256(ResponseContent(page))]

\* The row store_decision_in_supabase inserts (data); hash is
\* metadata.content_hash.
ScrapedRow(decision) ==
    [id |-> NoId, sid |-> decision.source_identifier, hash |-> decision.content_hash,
     version |-> 0, prev |-> NoId,
     title |-> decision.title,
     full_text |-> decision.decision_text,
     url |-> decision.url,
     published_date |-> IF decision.published_date.type = "NoneType" THEN PyNone
                        ELSE IsoFormat(decision.published_date)]

\* A stored row as the dict a select returns it.
AsRecord(row) ==
    [id |-> PyInt(row.id), source_identifier |-> CaseNumber(row.sid),
     title |-> row.title, full_text |-> row.full_text, url |-> row.url,
     published_date |-> row.published_date, metadata |-> Dict(row.hash)]

\* The frame of scrape_recent_decisions: the index of GOV.UK (it stays as it
\* is), decision_links, the loop position, the decision parsed last and the
\* number of calls so far.
IdleScrape(index) ==
    [pc |-> "idle", index |-> index, decision_links |-> <<>>, i |-> 0,
     decision |-> PyNone, decisions |-> 0, calls |-> 0]

\* scrape_recent_decisions() is entered.
ScrapeEnter ==
    /\ scrape.pc \in {"idle", "done"}
    /\ scrape.calls < MaxScrapes
    /\ scrape' = [IdleScrape(scrape.index) EXCEPT !.pc = "index",
                                                  !.calls = scrape.calls + 1]
    /\ UNCHANGED <<audit_log, audit, recon, quality, fails>>
    /\ UNCHANGED <<dedupVars, runVars, httpVars, scoreVars, ordinalVars>>

\* decision_links = parser.parse_decisions_index(): the links of the index, or
\* [] when the request fails; no link ends the call.
ParseDecisionsIndex ==
    /\ scrape.pc = "index"
    /\ \E ok \in BOOLEAN :
        LET links == IF ok THEN scrape.index ELSE <<>>
        IN  scrape' = IF links = <<>> THEN [scrape EXCEPT !.pc = "done"]
                      ELSE [scrape EXCEPT !.pc = "parse", !.decision_links = links,
                                          !.i = 1]
    /\ UNCHANGED <<audit_log, audit, recon, quality, fails>>
    /\ UNCHANGED <<dedupVars, runVars, httpVars, scoreVars, ordinalVars>>

\* The loop goes on to the next link, or ends.
NextLink(frame) ==
    IF frame.i < Len(frame.decision_links)
    THEN [frame EXCEPT !.pc = "parse", !.i = frame.i + 1, !.decision = PyNone]
    ELSE [frame EXCEPT !.pc = "done", !.decision = PyNone]

\* decision = parser.parse_decision_page(link_info['url']): a TribunalDecision,
\* or None when the request or the parsing raises.
ParseDecisionPage ==
    /\ scrape.pc = "parse"
    /\ \E ok \in BOOLEAN :
        scrape' = IF ok
                  THEN [scrape EXCEPT
                           !.pc = "store",
                           !.decision = TribunalDecision(scrape.decision_links[scrape.i]),
                           !.decisions = scrape.decisions + 1]
                  ELSE NextLink(scrape)
    /\ UNCHANGED <<audit_log, audit, recon, quality, fails>>
    /\ UNCHANGED <<dedupVars, runVars, httpVars, scoreVars, ordinalVars>>

\* store_decision_in_supabase(decision): one insert into regulatory_updates; a
\* failure is logged and False is returned.
StoreDecisionInSupabase ==
    /\ scrape.pc = "store"
    /\ \E ok \in Outcomes :
        /\ fails' = FailedWrite(ok)
        /\ updates' = IF ok THEN InsertRow(updates, ScrapedRow(scrape.decision))
                      ELSE updates
    /\ scrape' = NextLink(scrape)
    /\ UNCHANGED <<versions, call, calls, lived>>
    /\ UNCHANGED <<audit_log, audit, recon, quality>>
    /\ UNCHANGED <<runVars, httpVars, scoreVars, ordinalVars>>

\* run_daily_quality_report: a stored record is passed to check_decision_quality.
CheckStored(k) ==
    /\ scrape.pc \in {"idle", "done"}
    /\ k \in 1..Len(updates)
    /\ quality' = IdleQuality(AsRecord(updates[k]))
    /\ UNCHANGED <<audit_log, audit, recon, scrape, fails>>
    /\ UNCHANGED <<dedupVars, runVars, httpVars, scoreVars, ordinalVars>>

\* ------------------------------------------- properties: data quality checks

\* The record given to check_decision_quality records a content hash in its
\* metadata and has a text.
RecordsHash ==
    /\ quality.given.metadata.type = "dict"
    /\ quality.given.metadata.content_hash.type = "str"
    /\ quality.given.full_text.type = "str"

\* The SHA-256 of the UTF-8 bytes of the given record's full_text.
TextDigest == Sha256(Utf8(quality.given.full_text))

HashIssueReported ==
    \E k \in 1..Len(quality.issues) : quality.issues[k].field_name = "content_hash"

\* C23: check_decision_quality reports a critical content_hash issue for every
\* record whose metadata records a content hash that differs from the SHA-256 of
\* its full_text, and reports no content_hash issue when the recorded hash equals
\* that digest.
C23_HashIssueIffMismatch ==
    (quality.pc = "done" /\ RecordsHash) =>
        IF quality.given.metadata.content_hash # TextDigest
        THEN \E k \in 1..Len(quality.issues) :
                /\ quality.issues[k].field_name = "content_hash"
                /\ quality.issues[k].severity = "critical"
        ELSE ~HashIssueReported

\* C24: for every record, whatever is absent, None, empty or malformed in it,
\* check_decision_quality returns its list of issues and does not raise, leaves
\* the record as it was given and writes nothing to the store.
C24_CheckNeverRaises ==
    quality.pc = "done" =>
        /\ quality.raised = "none"
        /\ quality.decision = quality.given
        /\ updates = <<>> /\ versions = <<>> /\ audit_log = <<>>

\* The record given to check_decision_quality is a row the scraper stored, as
\* the store holds it.
ScrapedRecord == \E k \in 1..Len(updates) : quality.given = AsRecord(updates[k])

\* C28: a record that the GOV.UK scraper parsed and stored, and that nothing
\* modified afterwards, yields no content_hash issue from check_decision_quality.
C28_ScrapedRecordPasses ==
    (quality.pc = "done" /\ ScrapedRecord) => ~HashIssueReported

\* C29: however often scrape_recent_decisions runs over the same unchanged index,
\* regulatory_updates never holds two rows with equal source_identifier and equal
\* content_hash.
C29_NoEqualRows ==
    \A j, k \in 1..Len(updates) :
        (updates[j].sid = updates[k].sid /\ updates[j].hash = updates[k].hash) => j = k

\* ------------------------------------------------------ ACEI scoring engine
\* Python floats are modelled as exact rationals, each quantity as an integer
\* number of a fixed unit: sub-score inputs in whole points (consultation_stage
\* in tenths), impact and likelihood in twentieths, the velocity multiplier in
\* thousandths, the mitigation credit in two-thousandths, scores out of 100 as
\* hundredths plus a remainder over FinalDen.

MaxDeadlines == 2

\* Sample points of the declared ranges ge=0, le=10 (models.py).
ImpactLevels == {0, 10}

LikelihoodLevels == {0, 10}

VelocityLevels == {0, 10}

MitigationLevels == {0, 10}

\* days_to_effective = None
NoDays == -1

\* Deadlines in days, and for each the value of 1/(1 + exp((days - 180)/60)) in
\* millionths.
DeadlineDays == <<90, 1, 180, 270, 360>>

SigmoidMicro == <<817574, 951815, 500000, 182426, 47426>>

DaysValues == {NoDays, 0} \cup {DeadlineDays[k] : k \in 1..MaxDeadlines}

\* WEIGHTS of impact.py, likelihood.py and mitigation.py, in twentieths.
WeightScale == 20

ImpactWeights ==
    [regulatory_severity |-> 7, financial_exposure |-> 6,
     operational_disruption |-> 4, scope_breadth |-> 3]

LikelihoodWeights ==
    [enforcement_history |-> 6, regulatory_momentum |-> 7,
     political_support |-> 4, industry_readiness |-> 3]

MitigationWeights ==
    [controls_in_place |-> 9, monitoring_coverage |-> 6, response_capability |-> 5]

\* MAX_CREDIT = 0.70, in hundredths.
MAX_CREDIT == 70

\* The unit of the mitigation credit: 1/2000.
CreditScale == 2000

\* max_theoretical=300.0
MAX_THEORETICAL == 300

Clamp(x, lo, hi) == IF x < lo THEN lo ELSE IF x > hi THEN hi ELSE x

\* round(): n/d to the nearest integer, ties to the even one.
RoundDiv(n, d) ==
    LET q == n \div d
        r == n % d
    IN  IF 2 * r < d THEN q
        ELSE IF 2 * r > d THEN q + 1
        ELSE IF q % 2 = 0 THEN q ELSE q + 1

\* compute_impact with scope_breadth inverted, as compute_likelihood inverts
\* industry_readiness.
compute_impact_inverted(inp) ==
    LET score == inp.regulatory_severity * ImpactWeights.regulatory_severity
                 + inp.financial_exposure * ImpactWeights.financial_exposure
                 + inp.operational_disruption * ImpactWeights.operational_disruption
                 + (10 - inp.scope_breadth) * ImpactWeights.scope_breadth
    IN  Clamp(score, 0, 10 * WeightScale)

\* compute_impact, in twentieths.
compute_impact(inp) ==
    LET score == inp.regulatory_severity * ImpactWeights.regulatory_severity
                 + inp.financial_exposure * ImpactWeights.financial_exposure
                 + inp.operational_disruption * ImpactWeights.operational_disruption
                 + inp.scope_breadth * ImpactWeights.scope_breadth
    IN  Clamp(score, 0, 10 * WeightScale)

\* compute_likelihood with industry_readiness weighted as it is given.
compute_likelihood_plain(inp) ==
    LET score == inp.enforcement_history * LikelihoodWeights.enforcement_history
                 + inp.regulatory_momentum * LikelihoodWeights.regulatory_momentum
                 + inp.political_support * LikelihoodWeights.political_support
                 + inp.industry_readiness * LikelihoodWeights.industry_readiness
    IN  Clamp(score, 0, 10 * WeightScale)

\* compute_likelihood, in twentieths.
compute_likelihood(inp) ==
    LET inverted_readiness == 10 - inp.industry_readiness
        score == inp.enforcement_history * LikelihoodWeights.enforcement_history
                 + inp.regulatory_momentum * LikelihoodWeights.regulatory_momentum
                 + inp.political_support * LikelihoodWeights.political_support
                 + inverted_readiness * LikelihoodWeights.industry_readiness
    IN  Clamp(score, 0, 10 * WeightScale)

\* time_factor of compute_velocity, in millionths.
TimeFactor(days) ==
    IF days # NoDays /\ days > 0
    THEN LET k == CHOOSE i \in 1..Len(DeadlineDays) : DeadlineDays[i] = days
         IN  SigmoidMicro[k]
    ELSE 500000

\* compute_velocity, in thousandths: raw in units of 10^-7, rounded to 3 decimals.
compute_velocity(inp) ==
    LET raw == 10000000 + 8 * TimeFactor(inp.days_to_effective)
               + 600000 * inp.amendment_frequency
               + 600000 * inp.consultation_stage
    IN  Clamp(RoundDiv(raw, 10000), 100, 3000)

\* compute_mitigation without the factor MAX_CREDIT and without the final clamp.
compute_mitigation_unscaled(inp) ==
    LET raw == inp.controls_in_place * MitigationWeights.controls_in_place
               + inp.monitoring_coverage * MitigationWeights.monitoring_coverage
               + inp.response_capability * MitigationWeights.response_capability
    IN  (raw * CreditScale) \div (WeightScale * 10)

\* compute_mitigation, in two-thousandths: (raw / 10.0) * MAX_CREDIT.
compute_mitigation(inp) ==
    LET raw == inp.controls_in_place * MitigationWeights.controls_in_place
               + inp.monitoring_coverage * MitigationWeights.monitoring_coverage
               + inp.response_capability * MitigationWeights.response_capability
        credit == (raw * MAX_CREDIT * CreditScale) \div (WeightScale * 10 * 100)
    IN  Clamp(credit, 0, (MAX_CREDIT * CreditScale) \div 100)

\* The denominator of the remainder of a score: after_mitigation is a number of
\* units 1/(20 * 20 * 1000 * 2000), and a hundredth of max_theoretical/100 is
\* FinalDen of them.
FinalDen == ((WeightScale * WeightScale * 1000) \div 10000) * CreditScale * MAX_THEORETICAL

\* normalise_to_100(adjusted * (1 - mitigation)): the product is formed in two
\* halves to stay within 32 bits. The result is [q, r]: q hundredths and r/FinalDen
\* of a hundredth.
normalise_to_100(adjusted, mitigation) ==
    LET rest == CreditScale - mitigation
        hi0 == (adjusted \div 10000) * rest
        lo0 == (adjusted % 10000) * rest
        hi == hi0 + lo0 \div 10000
        lo == lo0 % 10000
        q == hi \div (FinalDen \div 10000)
        r == (hi % (FinalDen \div 10000)) * 10000 + lo
    IN  IF q < 0 THEN [q |-> 0, r |-> 0]
        ELSE IF q >= 10000 THEN [q |-> 10000, r |-> 0]
        ELSE [q |-> q, r |-> r]

\* score <= bound, for a score [q, r] and a bound in whole points.
ScoreAtMost(score, bound) ==
    score.q < 100 * bound \/ (score.q = 100 * bound /\ score.r = 0)

\* score_to_grade with < in place of <=.
score_to_grade_strict(score) ==
    IF score.q < 2000 THEN "A"
    ELSE IF score.q < 4000 THEN "B"
    ELSE IF score.q < 6000 THEN "C"
    ELSE IF score.q < 8000 THEN "D"
    ELSE "F"

\* score_to_grade
score_to_grade(score) ==
    IF ScoreAtMost(score, 20) THEN "A"
    ELSE IF ScoreAtMost(score, 40) THEN "B"
    ELSE IF ScoreAtMost(score, 60) THEN "C"
    ELSE IF ScoreAtMost(score, 80) THEN "D"
    ELSE "F"

\* round(final, 2), in hundredths.
RoundScore(score) ==
    IF score.r < FinalDen \div 2 THEN score.q
    ELSE IF score.r > FinalDen \div 2 THEN score.q + 1
    ELSE IF score.q % 2 = 0 THEN score.q ELSE score.q + 1

\* compute_acei: the ACEIScore of an ACEIInput (identity fields, version and
\* timestamp left out); final is the unrounded score the grade is taken from.
compute_acei(inp) ==
    LET impact == compute_impact(inp.impact)
        likelihood == compute_likelihood(inp.likelihood)
        raw == impact * likelihood
        velocity == compute_velocity(inp.velocity)
        adjusted == raw * velocity
        mitigation == IF inp.mitigation.present
                      THEN compute_mitigation(inp.mitigation) ELSE 0
        final == normalise_to_100(adjusted, mitigation)
    IN  [impact_score |-> RoundDiv(impact * 100, WeightScale),
         likelihood_score |-> RoundDiv(likelihood * 100, WeightScale),
         velocity_multiplier |-> RoundDiv(velocity, 10),
         raw_score |-> RoundDiv(raw * 100, WeightScale * WeightScale),
         adjusted_score |-> RoundDiv(adjusted, WeightScale * WeightScale * 10),
         mitigation_credit |-> (mitigation * 10000) \div CreditScale,
         final_score |-> RoundScore(final),
         grade |-> score_to_grade(final),
         impact |-> impact, likelihood |-> likelihood, velocity |-> velocity,
         mitigation |-> mitigation, final |-> final]

\* The inputs compute_acei is applied to: every combination of the sample
\* points, and the input of the golden tests.
ImpactInputs ==
    [regulatory_severity : ImpactLevels, financial_exposure : ImpactLevels,
     operational_disruption : ImpactLevels, scope_breadth : ImpactLevels]

LikelihoodInputs ==
    [enforcement_history : LikelihoodLevels, regulatory_momentum : LikelihoodLevels,
     political_support : LikelihoodLevels, industry_readiness : LikelihoodLevels]

VelocityInputs ==
    [days_to_effective : DaysValues, amendment_frequency : VelocityLevels,
     consultation_stage : VelocityLevels]

\* mitigation = None
NoMitigation ==
    [present |-> FALSE, controls_in_place |-> 0, monitoring_coverage |-> 0,
     response_capability |-> 0]

MitigationInputs ==
    [present : {TRUE}, controls_in_place : MitigationLevels,
     monitoring_coverage : MitigationLevels, response_capability : MitigationLevels]

\* _make_input() of test_golden.py, and the mitigation of
\* test_mitigation_reduces_score.
GoldenInput ==
    [impact |-> [regulatory_severity |-> 7, financial_exposure |-> 6,
                 operational_disruption |-> 5, scope_breadth |-> 4],
     likelihood |-> [enforcement_history |-> 6, regulatory_momentum |-> 7,
                     political_support |-> 5, industry_readiness |-> 4],
     velocity |-> [days_to_effective |-> 90, amendment_frequency |-> 5,
                   consultation_stage |-> 8],
     mitigation |-> NoMitigation]

GoldenMitigation ==
    [present |-> TRUE, controls_in_place |-> 8, monitoring_coverage |-> 7,
     response_capability |-> 6]

\* An assessment whose score lies between two hundredths just above a grade
\* boundary: impact 2.5, likelihood 9.45, velocity 2.54, final 20.0025.
BoundaryInput ==
    [impact |-> [regulatory_severity |-> 0, financial_exposure |-> 0,
                 operational_disruption |-> 5, scope_breadth |-> 10],
     likelihood |-> [enforcement_history |-> 10, regulatory_momentum |-> 9,
                     political_support |-> 9, industry_readiness |-> 0],
     velocity |-> [days_to_effective |-> NoDays, amendment_frequency |-> 9,
                   consultation_stage |-> 10],
     mitigation |-> NoMitigation]

ACEIInputs ==
    [impact : ImpactInputs, likelihood : LikelihoodInputs, velocity : VelocityInputs,
     mitigation : {NoMitigation} \cup MitigationInputs]
    \cup {GoldenInput, [GoldenInput EXCEPT !.mitigation = GoldenMitigation],
          BoundaryInput}

NoFinal == [q |-> 0, r |-> 0]

\* The caller holds an input; out is the ACEIScore of the last compute_acei call,
\* prev the unrounded and the rounded final score of the call before the input
\* was changed (op).
NoScore ==
    [impact_score |-> 0, likelihood_score |-> 0, velocity_multiplier |-> 0,
     raw_score |-> 0, adjusted_score |-> 0, mitigation_credit |-> 0,
     final_score |-> 0, grade |-> "none", impact |-> 0, likelihood |-> 0,
     velocity |-> 0, mitigation |-> 0, final |-> NoFinal]

IdleAcei(inp) ==
    [pc |-> "ready", inp |-> inp, out |-> NoScore, op |-> "first",
     prev |-> NoFinal, prev_score |-> 0]

\* compute_acei(inp)
ComputeAcei ==
    /\ acei.pc = "ready"
    /\ acei' = [acei EXCEPT !.pc = "scored", !.out = compute_acei(acei.inp)]
    /\ UNCHANGED <<grading, fails>>
    /\ UNCHANGED <<dedupVars, runVars, httpVars, integVars, ordinalVars>>

\* The caller raises one Impact field and keeps every other input.
RaiseImpact(field, value) ==
    /\ acei.pc = "scored"
    /\ value > acei.inp.impact[field]
    /\ acei' = [acei EXCEPT !.pc = "ready", !.inp.impact[field] = value,
                            !.op = "raise", !.prev = acei.out.final,
                            !.prev_score = acei.out.final_score]
    /\ UNCHANGED <<grading, fails>>
    /\ UNCHANGED <<dedupVars, runVars, httpVars, integVars, ordinalVars>>

\* The caller adds a Mitigation object to an input that has none.
AddMitigation(mitigation) ==
    /\ acei.pc = "scored"
    /\ ~acei.inp.mitigation.present
    /\ acei' = [acei EXCEPT !.pc = "ready", !.inp.mitigation = mitigation,
                            !.op = "mitigate", !.prev = acei.out.final,
                            !.prev_score = acei.out.final_score]
    /\ UNCHANGED <<grading, fails>>
    /\ UNCHANGED <<dedupVars, runVars, httpVars, integVars, ordinalVars>>

\* The scores score_to_grade is applied to: whole points of [0, 100], among them
\* the band edges of its docstring, and each of them a hair higher.
GradePoints == {0, 10, 20, 21, 30, 40, 41, 50, 60, 61, 70, 80, 81, 90, 100}

GradeScores ==
    {[q |-> 100 * p, r |-> e] : p \in GradePoints \ {100}, e \in {0, 1}}
    \cup {[q |-> 10000, r |-> 0]}

ScoreLess(a, b) == a.q < b.q \/ (a.q = b.q /\ a.r < b.r)

ScoreLeq(a, b) == a = b \/ ScoreLess(a, b)

IdleGrading(score) ==
    [pc |-> "ready", score |-> score, grade |-> "none", op |-> "first",
     prev_grade |-> "none"]

\* score_to_grade(score)
Grade ==
    /\ grading.pc = "ready"
    /\ grading' = [grading EXCEPT !.pc = "graded", !.grade = score_to_grade(grading.score)]
    /\ UNCHANGED <<acei, fails>>
    /\ UNCHANGED <<dedupVars, runVars, httpVars, integVars, ordinalVars>>

\* The caller goes on to a higher score.
HigherScore(score) ==
    /\ grading.pc = "graded"
    /\ ScoreLess(grading.score, score)
    /\ grading' = [grading EXCEPT !.pc = "ready", !.score = score, !.op = "higher",
                                  !.prev_grade = grading.grade]
    /\ UNCHANGED <<acei, fails>>
    /\ UNCHANGED <<dedupVars, runVars, httpVars, integVars, ordinalVars>>

\* ------------------------------------------------ properties: ACEI scoring

Scored == acei.pc = "scored"

\* The credit as the claim states it, in two-thousandths: the weighted sum
\* divided by 10, then capped at MAX_CREDIT.
CappedTenth(inp) ==
    LET raw == 9 * inp.controls_in_place + 6 * inp.monitoring_coverage
               + 5 * inp.response_capability
        tenth == (raw * CreditScale) \div (WeightScale * 10)
        cap == (MAX_CREDIT * CreditScale) \div 100
    IN  IF tenth > cap THEN cap ELSE tenth

\* C15: the mitigation credit is the weighted sum 0.45/0.30/0.25 of the three
\* fields divided by 10 and then capped at 0.70, and it is 0 when the Mitigation
\* object is absent.
C15_CreditIsCappedTenth ==
    Scored =>
        acei.out.mitigation = IF acei.inp.mitigation.present
                              THEN CappedTenth(acei.inp.mitigation) ELSE 0

FullScore == [q |-> 10000, r |-> 0]

C17_FinalMonotone ==
    Scored =>
        /\ acei.op = "raise" =>
            /\ ScoreLeq(acei.prev, acei.out.final)
            /\ acei.prev_score <= acei.out.final_score
        /\ acei.op = "mitigate" =>
            /\ ScoreLeq(acei.out.final, acei.prev)
            /\ acei.out.final_score <= acei.prev_score

\* An Impact field was raised on an input that carries a Mitigation object, and
\* the final score went up.
C17_Witness ==
    /\ Scored
    /\ acei.op = "raise"
    /\ acei.inp.mitigation.present
    /\ acei.out.mitigation > 0
    /\ ScoreLess(acei.prev, acei.out.final)

\* clamp(impact * likelihood * velocity * (1 - credit) / 300 * 100, 0, 100) as
\* [q, r], the product formed as (impact * likelihood) * (velocity * (1 - credit)).
ClampedProduct(impact, likelihood, velocity, credit) ==
    LET x == impact * likelihood
        y == velocity * (CreditScale - credit)
        hi0 == x * (y \div 10000)
        lo0 == x * (y % 10000)
        hi == hi0 + lo0 \div 10000
        lo == lo0 % 10000
        q == hi \div 2400
        r == (hi % 2400) * 10000 + lo
    IN  IF q >= 10000 THEN FullScore ELSE [q |-> q, r |-> r]

\* C18: final = clamp(Impact * Likelihood * velocity * (1 - credit) / 300 * 100,
\* 0, 100) with Impact the sum of the impact fields weighted 0.35/0.30/0.20/0.15
\* and Likelihood the sum weighted 0.30/0.35/0.20/0.15 with 10 - industry_readiness
\* in place of industry_readiness; impact fields (7,6,5,4) give 5.85 and
\* likelihood fields (6,7,5,4) give 6.15.
C18_FinalFormula ==
    Scored =>
        LET i == acei.inp.impact
            l == acei.inp.likelihood
            Impact == 7 * i.regulatory_severity + 6 * i.financial_exposure
                      + 4 * i.operational_disruption + 3 * i.scope_breadth
            Likelihood == 6 * l.enforcement_history + 7 * l.regulatory_momentum
                          + 4 * l.political_support + 3 * (10 - l.industry_readiness)
        IN  /\ acei.out.impact = Impact
            /\ acei.out.likelihood = Likelihood
            /\ acei.out.final = ClampedProduct(Impact, Likelihood, acei.out.velocity,
                                               acei.out.mitigation)
            /\ i = GoldenInput.impact => acei.out.impact_score = 585
            /\ l = GoldenInput.likelihood => acei.out.likelihood_score = 615

\* The golden input with its mitigation has been scored.
C18_Witness ==
    /\ Scored
    /\ acei.inp = [GoldenInput EXCEPT !.mitigation = GoldenMitigation]
    /\ acei.out.impact_score = 585
    /\ acei.out.likelihood_score = 615
    /\ acei.out.final_score = 1448

\* score > bound, for a score [q, r] and a bound in whole points.
ScoreAbove(score, bound) ==
    score.q > 100 * bound \/ (score.q = 100 * bound /\ score.r > 0)

GradeRank(grade) ==
    CASE grade = "A" -> 1 [] grade = "B" -> 2 [] grade = "C" -> 3
      [] grade = "D" -> 4 [] grade = "F" -> 5

\* C19: every score of [0,100] gets exactly one letter: A up to 20, B above 20 up
\* to 40, C above 40 up to 60, D above 60 up to 80, F above 80; a higher score
\* never gets an earlier letter.
C19_GradeBands ==
    grading.pc = "graded" =>
        LET s == grading.score
            g == grading.grade
        IN  /\ g \in {"A", "B", "C", "D", "F"}
            /\ g = "A" <=> ~ScoreAbove(s, 20)
            /\ g = "B" <=> ScoreAbove(s, 20) /\ ~ScoreAbove(s, 40)
            /\ g = "C" <=> ScoreAbove(s, 40) /\ ~ScoreAbove(s, 60)
            /\ g = "D" <=> ScoreAbove(s, 60) /\ ~ScoreAbove(s, 80)
            /\ g = "F" <=> ScoreAbove(s, 80)
            /\ grading.op = "higher" => GradeRank(grading.prev_grade) <= GradeRank(g)

\* A score a hair above 20 was graded after a score of exactly 20.
C19_Witness ==
    /\ grading.pc = "graded"
    /\ grading.score = [q |-> 2000, r |-> 1]
    /\ grading.grade = "B"
    /\ grading.op = "higher"
    /\ grading.prev_grade = "A"

\* C30: in every ACEIScore compute_acei returns, the grade field is the band of
\* the reported final_score: score_to_grade of the rounded final_score equals
\* grade.
C30_GradeOfReportedScore ==
    Scored =>
        score_to_grade([q |-> acei.out.final_score, r |-> 0]) = acei.out.grade

\* ------------------------------------------------- ordinal likelihood model
\* Scores out of 100 are in tenths, l_raw in tenths.

MaxWeekly == 6

\* Three of the categories of EVI_BASELINES with their baselines, and a category
\* the table does not hold.
EVI_BASELINES ==
    [data_protection_privacy |-> 2, employment_status_classification |-> 5,
     discrimination_harassment |-> 20]

Categories == DOMAIN EVI_BASELINES \cup {"uncategorised"}

\* LIKELIHOOD_WEIGHTS, EII_WEIGHTS, SCI_WEIGHTS, in tenths.
LIKELIHOOD_WEIGHTS == [evi |-> 4, eii |-> 3, sci |-> 3]

EII_WEIGHTS == [ras |-> 4, tas |-> 3, gps |-> 2, mvs |-> 1]

SCI_WEIGHTS == [scs |-> 4, cls |-> 3, ips |-> 2, mps |-> 1]

\* What calculate_ras, calculate_gps, calculate_mvs and the four SCI component
\* scores return for no events, in whole points.
RAS_BASELINE == 20

GPS_BASELINE == 30

MVS_BASELINE == 10

SCI_NEUTRAL == 50

\* The defaults of the except branches of calculate_eii_for_category and
\* calculate_sci_for_category.
EII_DEFAULT == 2

SCI_DEFAULT == 1

Min2(a, b) == IF a < b THEN a ELSE b

Max2(a, b) == IF a > b THEN a ELSE b

\* ordinal_map, for a score in tenths of a point.
ordinal_map(score_100) ==
    LET clamped == Max2(0, Min2(1000, score_100))
    IN  Min2(5, 1 + clamped \div 200)

\* calculate_evi with < in the place of <=.
calculate_evi_strict(category, weekly_count) ==
    LET baseline == IF category \in DOMAIN EVI_BASELINES THEN EVI_BASELINES[category]
                    ELSE 1
        ratio == (100 * weekly_count)
    IN  IF ratio < 110 * baseline THEN 1
        ELSE IF ratio < 125 * baseline THEN 2
        ELSE IF ratio < 150 * baseline THEN 3
        ELSE IF ratio < 200 * baseline THEN 4
        ELSE 5

\* calculate_evi: the ratio weekly_count / baseline against 1.10, 1.25, 1.50, 2.00.
calculate_evi(category, weekly_count) ==
    LET baseline == IF category \in DOMAIN EVI_BASELINES THEN EVI_BASELINES[category]
                    ELSE 1
        ratio == (100 * weekly_count)
    IN  IF ratio <= 110 * baseline THEN 1
        ELSE IF ratio <= 125 * baseline THEN 2
        ELSE IF ratio <= 150 * baseline THEN 3
        ELSE IF ratio <= 200 * baseline THEN 4
        ELSE 5

\* calculate_tas: tas_map
calculate_tas(evi_score) == IF evi_score \in 1..5 THEN 20 * evi_score ELSE 20

\* compute_eii, component scores in whole points.
compute_eii(ras, tas, gps, mvs) ==
    ordinal_map(EII_WEIGHTS.ras * ras + EII_WEIGHTS.tas * tas
                + EII_WEIGHTS.gps * gps + EII_WEIGHTS.mvs * mvs)

\* compute_sci, component scores in whole points.
compute_sci(scs, cls, ips, mps) ==
    ordinal_map(SCI_WEIGHTS.scs * scs + SCI_WEIGHTS.cls * cls
                + SCI_WEIGHTS.ips * ips + SCI_WEIGHTS.mps * mps)

\* l_raw, in tenths.
LRaw(evi, eii, sci) ==
    LIKELIHOOD_WEIGHTS.evi * evi + LIKELIHOOD_WEIGHTS.eii * eii
    + LIKELIHOOD_WEIGHTS.sci * sci

\* compute_l with int() in the place of round().
compute_l_truncated(evi, eii, sci) == Max2(1, Min2(5, LRaw(evi, eii, sci) \div 10))

\* compute_l
compute_l(evi, eii, sci) == Max2(1, Min2(5, RoundDiv(LRaw(evi, eii, sci), 10)))

IdleOrdinal ==
    [pc |-> "idle", category |-> "uncategorised", evi |-> 0, eii |-> 0, sci |-> 0,
     l |-> 0, l_raw |-> 0, raised |-> FALSE, evi_failed |-> FALSE,
     eii_failed |-> FALSE, sci_failed |-> FALSE]

\* A tribunal decision of a category is published and stored.
PublishDecision(category) ==
    /\ ordinal.pc \in {"idle", "done"}
    /\ recent[category] < MaxWeekly
    /\ recent' = [recent EXCEPT ![category] = @ + 1]
    /\ UNCHANGED <<ordinal, fails>>
    /\ UNCHANGED <<dedupVars, runVars, httpVars, integVars, scoreVars, indexVars>>

\* calculate_likelihood_for_category(category, supabase) is entered.
LikelihoodEnter(category) ==
    /\ ordinal.pc \in {"idle", "done"}
    /\ ordinal' = [IdleOrdinal EXCEPT !.pc = "evi", !.category = category]
    /\ UNCHANGED <<recent, fails>>
    /\ UNCHANGED <<dedupVars, runVars, httpVars, integVars, scoreVars, indexVars>>

\* evi_scores = calculate_all_evi(supabase); evi = evi_scores.get(category, 1):
\* the select of the recent tribunal decisions, counted by category; a failed
\* select gives 1 for every category.
CalculateAllEvi ==
    /\ ordinal.pc = "evi"
    /\ \E ok \in Outcomes :
        /\ fails' = FailedRead(ok)
        /\ ordinal' =
            [ordinal EXCEPT
                !.pc = "eii",
                !.evi_failed = ~ok,
                !.evi = IF ok /\ ordinal.category \in DOMAIN EVI_BASELINES
                        THEN calculate_evi(ordinal.category, recent[ordinal.category])
                        ELSE 1]
    /\ UNCHANGED recent
    /\ UNCHANGED <<dedupVars, runVars, httpVars, integVars, scoreVars, indexVars>>

\* calculate_eii_for_category: the try block gathers the enforcement, guidance
\* and media data (placeholders that yield no events) and combines the
\* components; when it raises, except Exception answers EII_DEFAULT.
CalculateEii ==
    /\ ordinal.pc = "eii"
    /\ \E ok \in Outcomes :
        /\ fails' = FailedRead(ok)
        /\ ordinal' =
            [ordinal EXCEPT
                !.pc = "sci",
                !.eii_failed = ~ok,
                !.eii = IF ok
                        THEN compute_eii(RAS_BASELINE, calculate_tas(ordinal.evi),
                                         GPS_BASELINE, MVS_BASELINE)
                        ELSE EII_DEFAULT]
    /\ UNCHANGED recent
    /\ UNCHANGED <<dedupVars, runVars, httpVars, integVars, scoreVars, indexVars>>

\* calculate_sci_for_category: the try block gathers the structural-change data
\* (placeholders that yield no events) and combines the components; when it
\* raises, except Exception answers SCI_DEFAULT.
CalculateSci ==
    /\ ordinal.pc = "sci"
    /\ \E ok \in Outcomes :
        /\ fails' = FailedRead(ok)
        /\ ordinal' =
            [ordinal EXCEPT
                !.pc = "l",
                !.sci_failed = ~ok,
                !.sci = IF ok
                        THEN compute_sci(SCI_NEUTRAL, SCI_NEUTRAL, SCI_NEUTRAL,
                                         SCI_NEUTRAL)
                        ELSE SCI_DEFAULT]
    /\ UNCHANGED recent
    /\ UNCHANGED <<dedupVars, runVars, httpVars, integVars, scoreVars, indexVars>>

\* l_raw and l are computed and the result is returned.
ComputeL ==
    /\ ordinal.pc = "l"
    /\ ordinal' = [ordinal EXCEPT
                      !.pc = "done",
                      !.l_raw = LRaw(ordinal.evi, ordinal.eii, ordinal.sci),
                      !.l = compute_l(ordinal.evi, ordinal.eii, ordinal.sci)]
    /\ UNCHANGED <<recent, fails>>
    /\ UNCHANGED <<dedupVars, runVars, httpVars, integVars, scoreVars, indexVars>>

\* The indices compute_l and calculate_evi are defined for.
Ordinals == 1..5

\* A caller of compute_l holds three indices; l is the result of the last call,
\* prev_l the result of the call before one index was raised (op).
IdleL(evi, eii, sci) ==
    [pc |-> "ready", evi |-> evi, eii |-> eii, sci |-> sci, l |-> 0,
     op |-> "first", prev_l |-> 0]

\* LikelihoodCalculator.compute_l(evi, eii, sci)
CallComputeL ==
    /\ lcall.pc = "ready"
    /\ lcall' = [lcall EXCEPT !.pc = "done",
                              !.l = compute_l(lcall.evi, lcall.eii, lcall.sci)]
    /\ UNCHANGED <<recent, ordinal, evicall, fails>>
    /\ UNCHANGED <<dedupVars, runVars, httpVars, integVars, scoreVars>>

\* The caller raises one index and keeps the other two.
RaiseIndex(index, value) ==
    /\ lcall.pc = "done"
    /\ value > lcall[index]
    /\ lcall' = [lcall EXCEPT !.pc = "ready", ![index] = value, !.op = "raise",
                              !.prev_l = lcall.l]
    /\ UNCHANGED <<recent, ordinal, evicall, fails>>
    /\ UNCHANGED <<dedupVars, runVars, httpVars, integVars, scoreVars>>

\* The largest weekly count a caller of calculate_evi passes.
MaxCount == 41

\* A caller of calculate_evi holds a category and the count of its week; evi is
\* the result of the last call, prev_evi the result of the call before the count
\* grew (op).
IdleEvi(category, weekly_count) ==
    [pc |-> "ready", category |-> category, weekly_count |-> weekly_count,
     evi |-> 0, op |-> "first", prev_evi |-> 0]

\* EVICalculator.calculate_evi(category, weekly_count)
CallCalculateEvi ==
    /\ evicall.pc = "ready"
    /\ evicall' = [evicall EXCEPT
                      !.pc = "done",
                      !.evi = calculate_evi(evicall.category, evicall.weekly_count)]
    /\ UNCHANGED <<recent, ordinal, lcall, fails>>
    /\ UNCHANGED <<dedupVars, runVars, httpVars, integVars, scoreVars>>

\* The week of the category brings more decisions.
GrowCount(weekly_count) ==
    /\ evicall.pc = "done"
    /\ weekly_count > evicall.weekly_count
    /\ evicall' = [evicall EXCEPT !.pc = "ready", !.weekly_count = weekly_count,
                                  !.op = "grow", !.prev_evi = evicall.evi]
    /\ UNCHANGED <<recent, ordinal, lcall, fails>>
    /\ UNCHANGED <<dedupVars, runVars, httpVars, integVars, scoreVars>>

\* ---------------------------------------------- properties: ordinal model

\* The weighted sum 0.4 EVI + 0.3 EII + 0.3 SCI of the caller's indices, in tenths.
WeightedTenths == 4 * lcall.evi + 3 * lcall.eii + 3 * lcall.sci

\* C21: for all EVI, EII, SCI in 1..5 compute_l returns an integer of 1..5 that is
\* nearest to 0.4 EVI + 0.3 EII + 0.3 SCI (at most one half away from it), lies
\* between the smallest and the largest of the three indices, and is not lower
\* than the result before one index was raised.
C21_LikelihoodRounded ==
    lcall.pc = "done" =>
        /\ lcall.l \in Ordinals
        /\ 10 * lcall.l - WeightedTenths <= 5
        /\ WeightedTenths - 10 * lcall.l <= 5
        /\ \E index \in {"evi", "eii", "sci"} : lcall[index] <= lcall.l
        /\ \E index \in {"evi", "eii", "sci"} : lcall[index] >= lcall.l
        /\ lcall.op = "raise" => lcall.l >= lcall.prev_l

\* compute_l is called again after EVI was raised from 1 to 2 with EII 4 and
\* SCI 5: the sum goes from 3.1 to the tie 3.5 and the result from 3 to 4.
C21_Witness ==
    /\ lcall.pc = "done"
    /\ lcall.op = "raise"
    /\ WeightedTenths = 35
    /\ lcall.l = 4
    /\ lcall.prev_l = 3

\* The table's baseline of the caller's category, 1 for a category not in it.
CallerBaseline ==
    CASE evicall.category = "data_protection_privacy" -> 2
      [] evicall.category = "employment_status_classification" -> 5
      [] evicall.category = "discrimination_harassment" -> 20
      [] OTHER -> 1

\* C22: with ratio = weekly_count / baseline, calculate_evi returns 1 when
\* ratio <= 1.10, 2 when ratio <= 1.25, 3 when ratio <= 1.50, 4 when ratio <= 2.00
\* and 5 otherwise; the result is in 1..5 and is not lower than the result for a
\* smaller weekly_count of the same category.
C22_EviBands ==
    evicall.pc = "done" =>
        LET hundredths == 100 * evicall.weekly_count
            b == CallerBaseline
        IN  /\ evicall.evi \in Ordinals
            /\ evicall.evi = 1 <=> hundredths <= 110 * b
            /\ evicall.evi = 2 <=> (110 * b < hundredths /\ hundredths <= 125 * b)
            /\ evicall.evi = 3 <=> (125 * b < hundredths /\ hundredths <= 150 * b)
            /\ evicall.evi = 4 <=> (150 * b < hundredths /\ hundredths <= 200 * b)
            /\ evicall.evi = 5 <=> 200 * b < hundredths
            /\ evicall.op = "grow" => evicall.evi >= evicall.prev_evi

\* calculate_evi is called again after the week of discrimination_harassment
\* (baseline 20) grew from 22 decisions, ratio 1.10 and EVI 1, to 25 decisions:
\* the ratio is 1.25 and the result 2.
C22_Witness ==
    /\ evicall.pc = "done"
    /\ evicall.op = "grow"
    /\ evicall.category = "discrimination_harassment"
    /\ evicall.weekly_count = 25
    /\ evicall.evi = 2
    /\ evicall.prev_evi = 1

InitDedup ==
    /\ updates = <<>>
    /\ versions = <<>>
    /\ call = [p \in Procs |-> IdleFrame]
    /\ calls = 0
    /\ lived = {}

InitRun ==
    /\ runs = <<>>
    /\ stored = <<>>
    /\ run = IdleRun
    /\ nruns = 0

InitHttp(ds) ==
    /\ now = StartClock
    /\ sess \in {NewSession(d) : d \in ds}
    /\ get = IdleGet
    /\ starts = <<>>
    /\ gets = 0

InitAcei(inputs) == acei \in {IdleAcei(inp) : inp \in inputs}

InitGrading(scores) == grading \in {IdleGrading(score) : score \in scores}

InitIndices(triples, weeks) ==
    /\ lcall \in {IdleL(x[1], x[2], x[3]) : x \in triples}
    /\ evicall \in {IdleEvi(w[1], w[2]) : w \in weeks}

InitOrdinal ==
    /\ recent = [category \in Categories |-> 0]
    /\ ordinal = IdleOrdinal
    /\ InitIndices({<<1, 1, 1>>}, {<<"uncategorised", 0>>})

InitQuality(decisions) == quality \in {IdleQuality(decision) : decision \in decisions}

\* A record of the scraper with no issue: check_decision_quality returns [].
CleanDecision ==
    [id |-> PyInt(1), source_identifier |-> Str("ET-1", 4), title |-> Str("title", 5),
     full_text |-> Text("a", SHORT_TEXT), url |-> Url("https"),
     published_date |-> DateStr(TRUE, "", Today - 1), metadata |-> Dict(Absent)]

InitIntegrity ==
    /\ audit_log = <<>>
    /\ audit = IdleAudit
    /\ recon = IdleRecon
    /\ InitQuality({CleanDecision})
    /\ scrape = IdleScrape(<<>>)

Init ==
    /\ InitDedup
    /\ InitRun
    /\ InitHttp({RATE_LIMIT_DELAY})
    /\ InitIntegrity
    /\ InitAcei({GoldenInput})
    /\ InitGrading({NoFinal})
    /\ InitOrdinal
    /\ fails = [read |-> 0, write |-> 0]

\* One caller at a time: calls of process_with_duplicate_detection run in sequence.
Next ==
    \/ \E s \in Sids, h \in Hashes : Call(1, s, h)
    \/ CheckSelect(1)
    \/ GetLatest(1)
    \/ MergeRead(1)
    \/ MergeOld(1)
    \/ MergeUpdate(1)
    \/ MergeNew(1)
    \/ Insert(1)
    \/ InsertVer(1)

Spec == Init /\ [][Next]_vars

\* Concurrent callers of process_with_duplicate_detection on one store, one call
\* each; the store has no uniqueness constraint, and each store statement is one
\* atomic step.
NextConc ==
    \/ \E p \in Procs, s \in Sids, h \in Hashes : call[p].pc = "idle" /\ Call(p, s, h)
    \/ \E p \in Procs : CheckSelect(p)
    \/ \E p \in Procs : GetLatest(p)
    \/ \E p \in Procs : MergeRead(p)
    \/ \E p \in Procs : MergeOld(p)
    \/ \E p \in Procs : MergeUpdate(p)
    \/ \E p \in Procs : MergeNew(p)
    \/ \E p \in Procs : Insert(p)
    \/ \E p \in Procs : InsertVer(p)

SpecConc == Init /\ [][NextConc]_vars

\* BaseScraper.run invocations, one after another.
NextRun ==
    \/ StartRun
    \/ Fetch
    \/ Normalise
    \/ DedupSelect
    \/ DedupInsert
    \/ FinishSuccess
    \/ FinishError

SpecRun == Init /\ [][NextRun]_vars

\* One RateLimitedSession, constructed with any delay, serving get calls.
InitSession ==
    /\ InitDedup
    /\ InitRun
    /\ InitHttp(Delays)
    /\ InitIntegrity
    /\ InitAcei({GoldenInput})
    /\ InitGrading({NoFinal})
    /\ InitOrdinal
    /\ fails = [read |-> 0, write |-> 0]

NextHttp ==
    \/ GetEnter
    \/ Request
    \/ Backoff

SpecHttp == InitSession /\ [][NextHttp]_vars

\* One caller of the data-integrity layer: decisions are stored, audit entries
\* logged for stored records and batches of identifiers reconciled, one operation
\* after another. The content of a decision plays no part in this layer: every
\* decision carries the same hash.
NextIntegrity ==
    \/ \E s \in Sids : StoreDecision(s, 1)
    \/ \E record_id \in 1..Len(updates) : LogEvent(record_id)
    \/ LogEventReturn
    \/ \E scraped_ids \in SeqsUpTo(Sids, MaxIds) : Reconcile(scraped_ids)
    \/ ReconcileReturn

SpecIntegrity == Init /\ [][NextIntegrity]_vars

\* compute_acei applied to any of the inputs, and again after the caller raised
\* an Impact field or added a Mitigation object.
InitScoring ==
    /\ InitDedup
    /\ InitRun
    /\ InitHttp({RATE_LIMIT_DELAY})
    /\ InitIntegrity
    /\ InitAcei(ACEIInputs)
    /\ InitGrading({NoFinal})
    /\ InitOrdinal
    /\ fails = [read |-> 0, write |-> 0]

NextAcei ==
    \/ ComputeAcei
    \/ \E field \in DOMAIN ImpactWeights, value \in ImpactLevels : RaiseImpact(field, value)
    \/ \E mitigation \in MitigationInputs \cup {GoldenMitigation} : AddMitigation(mitigation)

SpecAcei == InitScoring /\ [][NextAcei]_vars

\* score_to_grade applied to any of the scores, and again to a higher one.
InitGrades ==
    /\ InitDedup
    /\ InitRun
    /\ InitHttp({RATE_LIMIT_DELAY})
    /\ InitIntegrity
    /\ InitAcei({GoldenInput})
    /\ InitGrading(GradeScores)
    /\ InitOrdinal
    /\ fails = [read |-> 0, write |-> 0]

NextGrade ==
    \/ Grade
    \/ \E score \in GradeScores : HigherScore(score)

SpecGrade == InitGrades /\ [][NextGrade]_vars

\* Tribunal decisions arrive, and calculate_likelihood_for_category is called
\* for one category after another.
NextOrdinal ==
    \/ \E category \in DOMAIN EVI_BASELINES : PublishDecision(category)
    \/ \E category \in Categories : LikelihoodEnter(category)
    \/ CalculateAllEvi
    \/ CalculateEii
    \/ CalculateSci
    \/ ComputeL

SpecOrdinal == Init /\ [][NextOrdinal]_vars

\* check_decision_quality applied to any of the records.
InitChecker ==
    /\ InitDedup
    /\ InitRun
    /\ InitHttp({RATE_LIMIT_DELAY})
    /\ audit_log = <<>>
    /\ audit = IdleAudit
    /\ recon = IdleRecon
    /\ InitQuality(CheckedDecisions)
    /\ scrape = IdleScrape(<<>>)
    /\ InitAcei({GoldenInput})
    /\ InitGrading({NoFinal})
    /\ InitOrdinal
    /\ fails = [read |-> 0, write |-> 0]

NextQuality == CheckDecisionQuality

SpecQuality == InitChecker /\ [][NextQuality]_vars

\* scrape_recent_decisions called again and again over one index, and the daily
\* quality report checking stored records between the calls.
InitScraper ==
    /\ InitDedup
    /\ InitRun
    /\ InitHttp({RATE_LIMIT_DELAY})
    /\ audit_log = <<>>
    /\ audit = IdleAudit
    /\ recon = IdleRecon
    /\ InitQuality({CleanDecision})
    /\ scrape \in {IdleScrape(index) : index \in Indexes}
    /\ InitAcei({GoldenInput})
    /\ InitGrading({NoFinal})
    /\ InitOrdinal
    /\ fails = [read |-> 0, write |-> 0]

NextScrape ==
    \/ ScrapeEnter
    \/ ParseDecisionsIndex
    \/ ParseDecisionPage
    \/ StoreDecisionInSupabase
    \/ \E k \in 1..Len(updates) : CheckStored(k)
    \/ CheckDecisionQuality

SpecScrape == InitScraper /\ [][NextScrape]_vars

\* compute_l applied to any three indices, and again after the caller raised one
\* of them.
InitLikelihood ==
    /\ InitDedup
    /\ InitRun
    /\ InitHttp({RATE_LIMIT_DELAY})
    /\ InitIntegrity
    /\ InitAcei({GoldenInput})
    /\ InitGrading({NoFinal})
    /\ recent = [category \in Categories |-> 0]
    /\ ordinal = IdleOrdinal
    /\ InitIndices(Ordinals \X Ordinals \X Ordinals, {<<"uncategorised", 0>>})
    /\ fails = [read |-> 0, write |-> 0]

NextLikelihood ==
    \/ CallComputeL
    \/ \E index \in DOMAIN LIKELIHOOD_WEIGHTS, value \in Ordinals : RaiseIndex(index, value)

SpecLikelihood == InitLikelihood /\ [][NextLikelihood]_vars

\* calculate_evi applied to any category and weekly count, and again after the
\* count grew.
InitEvi ==
    /\ InitDedup
    /\ InitRun
    /\ InitHttp({RATE_LIMIT_DELAY})
    /\ InitIntegrity
    /\ InitAcei({GoldenInput})
    /\ InitGrading({NoFinal})
    /\ recent = [category \in Categories |-> 0]
    /\ ordinal = IdleOrdinal
    /\ InitIndices({<<1, 1, 1>>}, Categories \X (0..MaxCount))
    /\ fails = [read |-> 0, write |-> 0]

NextEvi ==
    \/ CallCalculateEvi
    \/ \E weekly_count \in 0..MaxCount : GrowCount(weekly_count)

SpecEvi == InitEvi /\ [][NextEvi]_vars

====
